---- MODULE Spec2Model ----
(***************************************************************************)
(* Model of evt's postgres_plugin write pipeline, class pg                 *)
(* (src/plugins/postgres_plugin/evt_pg.cpp).                               *)
(*                                                                         *)
(* The store is the record db, one field per table.  The methods of pg     *)
(* are operators named as in the source; they take and return the values   *)
(* the C++ methods read and write (the store, a copy_context, the          *)
(* trx_buf_ of a trx_context).  The outcome of every libpq call that the   *)
(* code tests is an input of the operator that makes the call.             *)
(*                                                                         *)
(* The specifications that use these operators:                            *)
(*   Spec        the per-block pipeline, with process crash and restart;   *)
(*   SpecApi     the buffer methods of pg called in any order;             *)
(*   SpecStats   the stats methods with any key and value;                 *)
(*   SpecTokens  add_tokens with any issue-token action;                   *)
(*   SpecMeta    add_meta and the translators of the rows it attaches to;  *)
(*   SpecText    the text of the statement log as the store reads it;      *)
(*   SpecTrx     add_trx with any transaction;                             *)
(*   SpecUpd     the update translators and the rows they update;          *)
(*   SpecPrep    prepare-once, with the session closed and opened again.   *)
(* In all but SpecText a value is one symbol: it stands for a text without *)
(* a quote char.                                                           *)
(***************************************************************************)
EXTENDS Integers, Sequences, FiniteSets, TLC

VARIABLES
    db,                   \* the store: stats, blocks, transactions, actions, domains
    cctx,                 \* copy_context: blocks_copy_, trxs_copy_, actions_copy_
    tctx,                 \* trx_context: trx_buf_, a sequence of statement lines
    last_sync_block_id_,  \* pg::last_sync_block_id_
    pstate,               \* the process: "boot", "run", "halted" (exception), "down"
    pc,                   \* position of the pipeline within the current block
    applied,              \* number of the last block the pipeline completed
    cur,                  \* number of the block being applied (add_context)
    stopped_at,           \* pc of the pipeline when the process last stopped
    trips,                \* round trips to the store made by the last operation
    ret,                  \* the last operation and its result
    once,                 \* the operations whose static std::once_flag is set
    conn_                 \* pg::conn_: the session and the statements prepared on it

vars == <<db, cctx, tctx, last_sync_block_id_, pstate, pc, applied, cur,
          stopped_at, trips, ret, once, conn_>>

(***************************************************************************)
(* Bounds                                                                  *)
(***************************************************************************)
MaxBlocks == 3     \* blocks of the ledger
MaxTrxs   == 1     \* rows appended to one buffer of a copy context

\* SpecApi: rows an append-only table takes
MaxRows == MaxTrxs

(***************************************************************************)
(* The ledger                                                              *)
(***************************************************************************)
LedgerIds == <<"a1f0", "b2e1", "c3d2", "d4c3", "e5b4", "f6a5">>

\* block_id_type::str() of block number n
BlockId(n) == LedgerIds[n]

BlockNum(id) == CHOOSE n \in 1..Len(LedgerIds) : LedgerIds[n] = id

DomainNames == {"dom1", "dom2"}

\* SpecApi: mutation lines buffered in one trx context
MaxLines == Cardinality(DomainNames)

pg_version == "1.0.0"

PG_OK   == "OK"
ExecErr == "postgres_exec_exception"
SyncErr == "postgres_sync_exception"

(***************************************************************************)
(* The store                                                               *)
(***************************************************************************)
NoRows == [k \in {} |-> ""]

\* the tables as prepare_tables leaves them
EmptyDb ==
    [stats        |-> NoRows,
     blocks       |-> <<>>,
     transactions |-> <<>>,
     actions      |-> <<>>,
     domains      |-> NoRows,
     tokens       |-> NoRows,
     groups       |-> NoRows,
     fungibles    |-> NoRows,
     metas        |-> <<>>,
     metas_id_seq |-> 0]

Put(f, k, v) == [x \in DOMAIN f \cup {k} |-> IF x = k THEN v ELSE f[x]]

Applied(d) == [ok |-> TRUE, db |-> d]

Failed(d) == [ok |-> FALSE, db |-> d]

\* An array literal is a sequence of tokens: braces, commas and double-quoted
\* elements.
Lbrace == <<"{", "">>

Rbrace == <<"}", "">>

Comma == <<",", "">>

Quoted(x) == <<"q", x>>

\* array_in of the store: elements separated by single commas between braces
ParseArray(text) ==
    LET inner == SubSeq(text, 2, Len(text) - 1)
        n     == (Len(inner) + 1) \div 2
    IN  IF Len(text) < 2 \/ text[1] # Lbrace \/ text[Len(text)] # Rbrace
        THEN [ok |-> FALSE, elems |-> <<>>]
        ELSE IF Len(inner) = 0 THEN [ok |-> TRUE, elems |-> <<>>]
        ELSE IF /\ Len(inner) % 2 = 1
                /\ \A j \in 1..Len(inner) :
                      IF j % 2 = 1 THEN inner[j][1] = "q" ELSE inner[j] = Comma
             THEN [ok |-> TRUE, elems |-> [i \in 1..n |-> inner[2 * i - 1][2]]]
             ELSE [ok |-> FALSE, elems |-> <<>>]

\* mutant: the block that became irreversible is pruned
sbi_plan_prune(d, args) ==
    Applied([d EXCEPT !.blocks = SelectSeq(@, LAMBDA row : row.block_id # args[1])])

\* UPDATE blocks SET pending = false WHERE block_id = $1
sbi_plan(d, args) ==
    Applied([d EXCEPT !.blocks =
        [i \in 1..Len(@) |-> IF @[i].block_id = args[1]
                              THEN [@[i] EXCEPT !.pending = FALSE] ELSE @[i]]])

\* INSERT INTO tokens VALUES($1, $2, $3, $4, '{}', now())   (primary key: id)
it_plan(d, args) ==
    LET owner == ParseArray(args[4])
    IN  IF args[1] \in DOMAIN d.tokens \/ ~owner.ok THEN Failed(d)
        ELSE Applied([d EXCEPT !.tokens =
                Put(@, args[1], [domain |-> args[2], name |-> args[3],
                                 owner |-> owner.elems, metas |-> <<>>])])

\* INSERT INTO groups VALUES($1, $2, $3, '{}', now())   (primary key: name)
ng_plan(d, args) ==
    IF args[1] \in DOMAIN d.groups THEN Failed(d)
    ELSE Applied([d EXCEPT !.groups =
            Put(@, args[1], [key |-> args[2], def |-> args[3], metas |-> <<>>])])

\* INSERT INTO fungibles VALUES($1, .., $7, '{}', now())   (primary key: sym_id)
nf_plan(d, args) ==
    IF args[4] \in DOMAIN d.fungibles THEN Failed(d)
    ELSE Applied([d EXCEPT !.fungibles =
            Put(@, args[4], [name |-> args[1], sym_name |-> args[2], sym |-> args[3],
                             creator |-> args[5], issue |-> args[6],
                             manage |-> args[7], metas |-> <<>>])])

\* INSERT INTO metas VALUES(DEFAULT, $1, $2, $3, now()): the id is
\* nextval('metas_id_seq')
am_plan(d, args) ==
    LET id == d.metas_id_seq + 1
    IN  Applied([d EXCEPT !.metas_id_seq = id,
                          !.metas = Append(@, [id |-> id, key |-> args[1],
                                               value |-> args[2], creator |-> args[3]])])

\* lastval(): the value nextval gave last in the session
ArgValue(d, arg) == IF arg = "lastval()" THEN d.metas_id_seq ELSE arg

\* UPDATE <table> SET metas = array_append(metas, $1) WHERE <key column> = $2
\* (amd_plan: domains.name, amt_plan: tokens.id, amg_plan: groups.name,
\* amf_plan: fungibles.sym_id); lastval() fails before the session's first nextval
array_append_metas(d, table, args) ==
    IF args[1] = "lastval()" /\ d.metas_id_seq = 0 THEN Failed(d)
    ELSE IF args[2] \in DOMAIN d[table]
         THEN Applied([d EXCEPT ![table][args[2]].metas = Append(@, ArgValue(d, args[1]))])
         ELSE Applied(d)

\* The texts that are JSON documents: the policies and group definitions that
\* fc::json::to_string writes.  A jsonb column takes no other text; a name or
\* a word such as issue is not one.
Json == {"i0", "i1", "t0", "tr1", "m0", "m1", "d0", "d1"}

\* the key dt_plan leaves as the only owner
ZeroKey == "EVT00000000000000000000000000000000000000000000000000"

\* One EXECUTE line applied to the store d: the prepared statement's SQL.
\*   as_plan  INSERT INTO stats VALUES($1, $2, now(), now())    (primary key: key)
\*   us_plan  UPDATE stats SET value = $1 WHERE key = $2
\*   nd_plan  INSERT INTO domains VALUES($1, .., $5, '{}', now()) (primary key: name)
\*   ud_plan  UPDATE domains SET(issue, transfer, manage) = ($1, $2, $3) WHERE name = $4
\*   tf_plan  UPDATE tokens SET(owner) = ($1) WHERE id = $2
\*   dt_plan  UPDATE tokens SET(owner) = ('{"EVT0..0"}') WHERE id = $1
\*   ug_plan  UPDATE groups SET(def) = ($1) WHERE name = $2
\*   uf_plan  UPDATE fungibles SET(issue, manage) = ($1, $2) WHERE sym_id = $3
\* issue, transfer, manage and def are jsonb columns: a parameter bound to one
\* is read as JSON when the statement is executed.
\* A name that was not prepared is an error.
ApplyLine(d, line) ==
    CASE line.plan = "as_plan" ->
            IF line.args[1] \in DOMAIN d.stats
            THEN [ok |-> FALSE, db |-> d]
            ELSE [ok |-> TRUE,
                  db |-> [d EXCEPT !.stats = Put(@, line.args[1], line.args[2])]]
      [] line.plan = "us_plan" ->
            IF line.args[2] \in DOMAIN d.stats
            THEN [ok |-> TRUE,
                  db |-> [d EXCEPT !.stats = Put(@, line.args[2], line.args[1])]]
            ELSE [ok |-> TRUE, db |-> d]
      [] line.plan = "nd_plan" ->
            IF line.args[1] \in DOMAIN d.domains
            THEN [ok |-> FALSE, db |-> d]
            ELSE [ok |-> TRUE,
                  db |-> [d EXCEPT !.domains =
                            Put(@, line.args[1],
                                [creator  |-> line.args[2],
                                 issue    |-> line.args[3],
                                 transfer |-> line.args[4],
                                 manage   |-> line.args[5],
                                 metas    |-> <<>>])]]
      [] line.plan = "sbi_plan" -> sbi_plan(d, line.args)
      [] line.plan = "it_plan"  -> it_plan(d, line.args)
      [] line.plan = "ng_plan"  -> ng_plan(d, line.args)
      [] line.plan = "nf_plan"  -> nf_plan(d, line.args)
      [] line.plan = "am_plan"  -> am_plan(d, line.args)
      [] line.plan = "amd_plan" -> array_append_metas(d, "domains", line.args)
      [] line.plan = "amt_plan" -> array_append_metas(d, "tokens", line.args)
      [] line.plan = "amg_plan" -> array_append_metas(d, "groups", line.args)
      [] line.plan = "amf_plan" -> array_append_metas(d, "fungibles", line.args)
      [] line.plan = "ud_plan" ->
            IF \E i \in 1..3 : line.args[i] \notin Json THEN Failed(d)
            ELSE IF line.args[4] \in DOMAIN d.domains
                 THEN Applied([d EXCEPT !.domains[line.args[4]] =
                         [@ EXCEPT !.issue = line.args[1], !.transfer = line.args[2],
                                   !.manage = line.args[3]]])
                 ELSE Applied(d)
      [] line.plan = "tf_plan" ->
            IF ~ParseArray(line.args[1]).ok THEN Failed(d)
            ELSE IF line.args[2] \in DOMAIN d.tokens
                 THEN Applied([d EXCEPT !.tokens[line.args[2]].owner =
                                  ParseArray(line.args[1]).elems])
                 ELSE Applied(d)
      [] line.plan = "dt_plan" ->
            IF line.args[1] \in DOMAIN d.tokens
            THEN Applied([d EXCEPT !.tokens[line.args[1]].owner = <<ZeroKey>>])
            ELSE Applied(d)
      [] line.plan = "ug_plan" ->
            IF line.args[1] \notin Json THEN Failed(d)
            ELSE IF line.args[2] \in DOMAIN d.groups
                 THEN Applied([d EXCEPT !.groups[line.args[2]].def = line.args[1]])
                 ELSE Applied(d)
      [] line.plan = "uf_plan" ->
            IF \E i \in 1..2 : line.args[i] \notin Json THEN Failed(d)
            ELSE IF line.args[3] \in DOMAIN d.fungibles
                 THEN Applied([d EXCEPT !.fungibles[line.args[3]] =
                         [@ EXCEPT !.issue = line.args[1], !.manage = line.args[2]]])
                 ELSE Applied(d)
      [] OTHER -> [ok |-> FALSE, db |-> d]

\* The statements of a script run in order from statement i; statement number
\* fault (0: none) is the one at which the server or the connection fails.
RECURSIVE RunLines(_, _, _, _)
RunLines(d, lines, i, fault) ==
    IF i > Len(lines) THEN [ok |-> TRUE, db |-> d]
    ELSE IF i = fault THEN [ok |-> FALSE, db |-> d]
    ELSE LET r == ApplyLine(d, lines[i])
         IN  IF r.ok THEN RunLines(r.db, lines, i + 1, fault)
             ELSE [ok |-> FALSE, db |-> r.db]

\* mutant: the statements before the failing one stay applied
PQexecPartial(d, lines, fault) == RunLines(d, lines, 1, fault)

\* PQexec of a multi-statement string: one implicit transaction, so a failing
\* statement undoes the statements before it.  The values a sequence has given
\* out are not given again.
PQexec(d, lines, fault) ==
    LET r == RunLines(d, lines, 1, fault)
    IN  [ok |-> r.ok,
         db |-> IF r.ok THEN r.db ELSE [d EXCEPT !.metas_id_seq = r.db.metas_id_seq]]

(***************************************************************************)
(* Round trips                                                             *)
(***************************************************************************)
Trip(op, target, payload, steps, raised) ==
    [op |-> op, target |-> target, payload |-> payload, steps |-> steps,
     raised |-> raised]

\* What libpq can report for one COPY: <<PQexec gave PGRES_COPY_IN,
\* PQputCopyData gave 1, PQputCopyEnd gave 1, PQgetResult gave
\* PGRES_COMMAND_OK>>, cut after the first step that ends the call.
CopyOutcomes ==
    {<<FALSE>>, <<TRUE, FALSE>>,
     <<TRUE, TRUE, FALSE, FALSE>>, <<TRUE, TRUE, FALSE, TRUE>>,
     <<TRUE, TRUE, TRUE, FALSE>>,  <<TRUE, TRUE, TRUE, TRUE>>}

AllOk == <<TRUE, TRUE, TRUE, TRUE>>

\* the server's final result of the COPY is PGRES_COMMAND_OK: the rows are in
Ingested(o) == Len(o) = 4 /\ o[4]

(***************************************************************************)
(* Bulk Append Buffer                                                      *)
(***************************************************************************)
new_copy_context == [blocks_copy_ |-> <<>>, trxs_copy_ |-> <<>>, actions_copy_ |-> <<>>]

\* the row text: block_id, block_num, .., pending ("f"), created_at
add_block(c, n) ==
    [c EXCEPT !.blocks_copy_ =
        Append(@, [block_id |-> BlockId(n), block_num |-> n, pending |-> FALSE])]

add_trx(c, n, seq_num) ==
    [c EXCEPT !.trxs_copy_ =
        Append(@, [trx_id |-> <<n, seq_num>>, seq_num |-> seq_num,
                   block_id |-> BlockId(n), block_num |-> n, pending |-> FALSE])]

add_action(c, n, trx_seq, seq_num) ==
    [c EXCEPT !.actions_copy_ =
        Append(@, [block_id |-> BlockId(n), block_num |-> n,
                   trx_id |-> <<n, trx_seq>>, seq_num |-> seq_num])]

\* mutant: the server's final result is not tested
block_copy_to_unchecked(d, table, data, o) ==
    LET opened == o[1]
        nr     == Len(o) >= 2 /\ o[2]
        ok     == opened /\ nr
    IN  [db     |-> IF Ingested(o) THEN [d EXCEPT ![table] = @ \o data] ELSE d,
         result |-> IF ok THEN PG_OK ELSE ExecErr,
         trip   |-> Trip("COPY", table, data, o, ~ok)]

block_copy_to(d, table, data, o) ==
    LET opened == o[1]                   \* PQresultStatus(r) == PGRES_COPY_IN
        nr     == Len(o) >= 2 /\ o[2]    \* PQputCopyData(..) == 1
        nr2    == Len(o) >= 3 /\ o[3]    \* PQputCopyEnd(..) == 1
        r2     == Len(o) >= 4 /\ o[4]    \* PQresultStatus(r2) == PGRES_COMMAND_OK
        ok     == opened /\ nr /\ nr /\ r2   \* the third test reads nr, not nr2
    IN  [db     |-> IF Ingested(o) THEN [d EXCEPT ![table] = @ \o data] ELSE d,
         result |-> IF ok THEN PG_OK ELSE ExecErr,
         trip   |-> Trip("COPY", table, data, o, ~ok)]

\* mutant: an exception of block_copy_to is held back until the last buffer
CopyIfAnyKeepGoing(s, table, data, o) ==
    IF Len(data) = 0 THEN s
    ELSE LET r == block_copy_to(s.db, table, data, o)
         IN  [db |-> r.db,
              result |-> IF s.result # PG_OK THEN s.result ELSE r.result,
              trips |-> Append(s.trips, r.trip)]

\* if(buffer.size() > 0) block_copy_to(table, buffer); an exception of an
\* earlier call has left commit_copy_context
CopyIfAny(s, table, data, o) ==
    IF s.result # PG_OK \/ Len(data) = 0 THEN s
    ELSE LET r == block_copy_to(s.db, table, data, o)
         IN  [db |-> r.db, result |-> r.result, trips |-> Append(s.trips, r.trip)]

\* mutant: the actions buffer is flushed before the transactions buffer
commit_copy_context_reordered(d, c, outs) ==
    LET s0 == [db |-> d, result |-> PG_OK, trips |-> <<>>]
        s1 == CopyIfAny(s0, "blocks", c.blocks_copy_, outs[1])
        s2 == CopyIfAny(s1, "actions", c.actions_copy_, outs[3])
    IN  CopyIfAny(s2, "transactions", c.trxs_copy_, outs[2])

commit_copy_context(d, c, outs) ==
    LET s0 == [db |-> d, result |-> PG_OK, trips |-> <<>>]
        s1 == CopyIfAny(s0, "blocks", c.blocks_copy_, outs[1])
        s2 == CopyIfAny(s1, "transactions", c.trxs_copy_, outs[2])
    IN  CopyIfAny(s2, "actions", c.actions_copy_, outs[3])

\* The outcomes of the COPYs of one commit of c.  A buffer that is empty has no
\* COPY, and a COPY the server did not complete is the last one made: the
\* outcomes of the COPYs that are not made are left at AllOk.
CopyScripts(c) ==
    LET bufs == <<c.blocks_copy_, c.trxs_copy_, c.actions_copy_>>
    IN  {outs \in [1..3 -> CopyOutcomes] :
            \A i \in 1..3 :
                (\/ Len(bufs[i]) = 0
                 \/ \E j \in 1..(i - 1) : Len(bufs[j]) > 0 /\ ~Ingested(outs[j]))
                    => outs[i] = AllOk}

(***************************************************************************)
(* The session                                                             *)
(***************************************************************************)
\* PQconnectdb: a new session, no statement prepared on it
connect == [open |-> TRUE, prepared |-> {}]

\* PQfinish: the session and the statements prepared on it are gone
close == [open |-> FALSE, prepared |-> {}]

(***************************************************************************)
(* Buffered Statement Log                                                  *)
(***************************************************************************)
new_trx_context == <<>>

Line(plan, args) == [plan |-> plan, args |-> args]

\* mutant: the log is executed without the test for an empty log
commit_trx_context_always(d, buf, fault) ==
    LET r == PQexec(d, buf, fault)
    IN  [db     |-> r.db,
         result |-> IF r.ok THEN PG_OK ELSE ExecErr,
         trips  |-> <<Trip("EXEC", "", buf, <<r.ok>>, ~r.ok)>>]

\* mutant: the status of the execution is not tested
commit_trx_context_unchecked(d, buf, fault) ==
    IF Len(buf) = 0 THEN [db |-> d, result |-> PG_OK, trips |-> <<>>]
    ELSE LET r == PQexec(d, buf, fault)
         IN  [db     |-> r.db,
              result |-> PG_OK,
              trips  |-> <<Trip("EXEC", "", buf, <<r.ok>>, FALSE)>>]

commit_trx_context(d, buf, fault) ==
    IF Len(buf) = 0 THEN [db |-> d, result |-> PG_OK, trips |-> <<>>]
    ELSE LET r == PQexec(d, buf, fault)
         IN  [db     |-> r.db,
              result |-> IF r.ok THEN PG_OK ELSE ExecErr,
              trips  |-> <<Trip("EXEC", "", buf, <<r.ok>>, ~r.ok)>>]

\* mutant: the arguments in the order of us_plan's parameters
add_stat_swapped(buf, key, value) == Append(buf, Line("as_plan", <<value, key>>))

\* EXECUTE as_plan('key','value');
add_stat(buf, key, value) == Append(buf, Line("as_plan", <<key, value>>))

\* mutant: the arguments in the order of the method's parameters
upd_stat_swapped(buf, key, value) == Append(buf, Line("us_plan", <<key, value>>))

\* EXECUTE us_plan('value','key');
upd_stat(buf, key, value) == Append(buf, Line("us_plan", <<value, key>>))

\* EXECUTE nd_plan('name','creator','issue','transfer','manage');
add_domain(buf, nd) ==
    Append(buf, Line("nd_plan", <<nd.name, nd.creator, nd.issue, nd.transfer, nd.manage>>))

\* EXECUTE sbi_plan('block_id');
set_block_irreversible(buf, block_id) == Append(buf, Line("sbi_plan", <<block_id>>))

\* The text of an array: "{", then every element but the last double-quoted
\* and followed by a comma, then the last element double-quoted, then "}".
ArrayText(xs) ==
    LET n == Len(xs)
    IN  <<Lbrace>>
        \o (IF n = 0 THEN <<>>
            ELSE [j \in 1..(2 * (n - 1)) |->
                     IF j % 2 = 1 THEN Quoted(xs[(j + 1) \div 2]) ELSE Comma]
                 \o <<Quoted(xs[n])>>)
        \o <<Rbrace>>

TokenId(domain, name) == domain \o ":" \o name

\* mutant: the owners are drained by the first name
add_tokens_owner_once(buf, it) ==
    buf \o [i \in 1..Len(it.names) |->
               Line("it_plan", <<TokenId(it.domain, it.names[i]), it.domain, it.names[i],
                                 ArrayText(IF i = 1 THEN it.owner ELSE <<>>)>>)]

\* EXECUTE it_plan('domain:name','domain','name','owners'); for each name
add_tokens(buf, it) ==
    LET owners == ArrayText(it.owner)
    IN  buf \o [i \in 1..Len(it.names) |->
                   Line("it_plan", <<TokenId(it.domain, it.names[i]), it.domain,
                                     it.names[i], owners>>)]

\* EXECUTE ng_plan('name','key','def');
add_group(buf, ng) == Append(buf, Line("ng_plan", <<ng.name, ng.key, ng.def>>))

\* EXECUTE nf_plan('name','sym_name','sym',sym_id,'creator','issue','manage');
add_fungible(buf, nf) ==
    Append(buf, Line("nf_plan", <<nf.name, nf.sym_name, nf.sym, nf.sym_id, nf.creator,
                                  nf.issue, nf.manage>>))

\* an optional policy: <<>> when the action does not carry it; the text sent in
\* its place is the word the local string was initialised with
PolicyText(opt, word) == IF opt # <<>> THEN opt[1] ELSE word

\* EXECUTE up_plan('issue','transfer','manage', 'name');
upd_domain(buf, ud) ==
    Append(buf, Line("up_plan", <<PolicyText(ud.issue, "issue"),
                                  PolicyText(ud.transfer, "transfer"),
                                  PolicyText(ud.manage, "manage"), ud.name>>))

\* EXECUTE tf_plan('owners','domain:name');
upd_token(buf, tf) ==
    Append(buf, Line("tf_plan", <<ArrayText(tf.to), TokenId(tf.domain, tf.name)>>))

\* EXECUTE dt_plan('domain:name');
del_token(buf, dt) == Append(buf, Line("dt_plan", <<TokenId(dt.domain, dt.name)>>))

\* EXECUTE ug_plan('name','def');
upd_group(buf, ug) == Append(buf, Line("ug_plan", <<ug.name, ug.def>>))

\* EXECUTE uf_plan('issue','manage',sym_id);
upd_fungible(buf, uf) ==
    Append(buf, Line("uf_plan", <<PolicyText(uf.issue, "issue"),
                                  PolicyText(uf.manage, "manage"), uf.sym_id>>))

\* N128(.fungible), N128(.group), N128(.meta)
FungibleMarker == ".fungible"

GroupMarker == ".group"

MetaMarker == ".meta"

\* mutant: the key is tested before the group domain
add_meta_key_first(buf, act) ==
    LET am == act.data
    IN  buf
        \o <<Line("am_plan", <<am.key, am.value, am.creator>>)>>
        \o <<IF act.domain = FungibleMarker
                 THEN Line("amf_plan", <<"lastval()", act.key>>)
             ELSE IF act.key = MetaMarker
                 THEN Line("amd_plan", <<"lastval()", act.domain>>)
             ELSE IF act.domain = GroupMarker
                 THEN Line("amg_plan", <<"lastval()", act.key>>)
             ELSE Line("amt_plan", <<"lastval()", TokenId(act.domain, act.key)>>)>>

\* EXECUTE am_plan('key','value','creator'); then the line of the owner.  The
\* key of a fungible action is the decimal text of its sym_id, which
\* lexical_cast<int64_t> and the format give back as it is.
add_meta(buf, act) ==
    LET am == act.data
    IN  buf
        \o <<Line("am_plan", <<am.key, am.value, am.creator>>)>>
        \o <<IF act.domain = FungibleMarker
                 THEN Line("amf_plan", <<"lastval()", act.key>>)
             ELSE IF act.domain = GroupMarker
                 THEN Line("amg_plan", <<"lastval()", act.key>>)
             ELSE IF act.key = MetaMarker
                 THEN Line("amd_plan", <<"lastval()", act.domain>>)
             ELSE Line("amt_plan", <<"lastval()", TokenId(act.domain, act.key)>>)>>

(***************************************************************************)
(* Stats and the sync checkpoint                                           *)
(***************************************************************************)
\* <<>> is PG_FAIL (no row), <<v>> is PG_OK with value v
read_stat(d, key) == IF key \in DOMAIN d.stats THEN <<d.stats[key]>> ELSE <<>>

\* mutant: ORDER BY block_num ASC
get_earliest_block_id(d) ==
    IF Len(d.blocks) = 0 THEN {<<>>}
    ELSE {<<d.blocks[i].block_id>> : i \in
            {j \in 1..Len(d.blocks) :
                \A k \in 1..Len(d.blocks) : d.blocks[k].block_num >= d.blocks[j].block_num}}

\* SELECT block_id FROM blocks ORDER BY block_num DESC LIMIT 1: the answers the
\* store can give; {<<>>} is PG_FAIL (no row)
get_latest_block_id(d) ==
    IF Len(d.blocks) = 0 THEN {<<>>}
    ELSE {<<d.blocks[i].block_id>> : i \in
            {j \in 1..Len(d.blocks) :
                \A k \in 1..Len(d.blocks) : d.blocks[k].block_num <= d.blocks[j].block_num}}

RsTrip  == Trip("QUERY", "rs_plan", <<"last_sync_block_id">>, <<TRUE>>, FALSE)
GlbTrip == Trip("QUERY", "glb_plan", <<>>, <<TRUE>>, FALSE)

\* mutant: a store with no block passes when its checkpoint is empty
check_last_sync_block_fresh(d, mem, latest) ==
    LET sync == read_stat(d, "last_sync_block_id")
    IN  IF sync = <<>>
        THEN [result |-> SyncErr, last_sync_block_id_ |-> mem, trips |-> <<RsTrip>>]
        ELSE IF latest # <<>>
             THEN IF sync[1] = latest[1]
                  THEN [result |-> PG_OK, last_sync_block_id_ |-> latest[1],
                        trips |-> <<RsTrip, GlbTrip>>]
                  ELSE [result |-> SyncErr, last_sync_block_id_ |-> mem,
                        trips |-> <<RsTrip, GlbTrip>>]
             ELSE [result |-> IF sync[1] = "" THEN PG_OK ELSE SyncErr,
                   last_sync_block_id_ |-> mem, trips |-> <<RsTrip, GlbTrip>>]

\* mutant: the two ids are not compared
check_last_sync_block_lax(d, mem, latest) ==
    LET sync == read_stat(d, "last_sync_block_id")
    IN  IF sync = <<>>
        THEN [result |-> SyncErr, last_sync_block_id_ |-> mem, trips |-> <<RsTrip>>]
        ELSE IF latest # <<>>
             THEN [result |-> PG_OK, last_sync_block_id_ |-> latest[1],
                   trips |-> <<RsTrip, GlbTrip>>]
             ELSE [result |-> SyncErr, last_sync_block_id_ |-> mem,
                   trips |-> <<RsTrip, GlbTrip>>]

\* latest is the answer of get_latest_block_id, mem the member before the call
check_last_sync_block(d, mem, latest) ==
    LET sync == read_stat(d, "last_sync_block_id")
    IN  IF sync = <<>>
        THEN [result |-> SyncErr, last_sync_block_id_ |-> mem, trips |-> <<RsTrip>>]
        ELSE IF latest # <<>>
             THEN IF sync[1] = latest[1]
                  THEN [result |-> PG_OK, last_sync_block_id_ |-> latest[1],
                        trips |-> <<RsTrip, GlbTrip>>]
                  ELSE [result |-> SyncErr, last_sync_block_id_ |-> mem,
                        trips |-> <<RsTrip, GlbTrip>>]
             ELSE [result |-> SyncErr, last_sync_block_id_ |-> mem,
                   trips |-> <<RsTrip, GlbTrip>>]

\* mutant: each entry is committed through a trx context of its own
prepare_stats_two_commits(d, fault) ==
    LET r1 == commit_trx_context(d, add_stat(new_trx_context, "version", pg_version),
                                 IF fault = 1 THEN 1 ELSE 0)
        r2 == commit_trx_context(r1.db, add_stat(new_trx_context, "last_sync_block_id", ""),
                                 IF fault = 2 THEN 1 ELSE 0)
    IN  IF r1.result # PG_OK THEN r1
        ELSE [db |-> r2.db, result |-> r2.result, trips |-> r1.trips \o r2.trips]

prepare_stats(d, fault) ==
    LET t0 == new_trx_context
        t1 == add_stat(t0, "version", pg_version)
        t2 == add_stat(t1, "last_sync_block_id", "")
    IN  commit_trx_context(d, t2, fault)

VersionErr == "postgres_version_exception"

\* version strings a release of the plugin can have left in the stats table
Versions == {"0.9.9", "1.0", "1.0.0", "1.0.0-rc", "1.0.1"}

\* the chars of a stored string, as char codes
Bytes(s) ==
    CASE s = "0.9.9"    -> <<48, 46, 57, 46, 57>>
      [] s = "1.0"      -> <<49, 46, 48>>
      [] s = "1.0.0"    -> <<49, 46, 48, 46, 48>>
      [] s = "1.0.0-rc" -> <<49, 46, 48, 46, 48, 45, 114, 99>>
      [] s = "1.0.1"    -> <<49, 46, 48, 46, 49>>
      [] s = ""         -> <<>>

\* std::string::compare: the first differing char decides, then the length
RECURSIVE StrCompare(_, _)
StrCompare(a, b) ==
    IF a = <<>> /\ b = <<>> THEN 0
    ELSE IF a = <<>> THEN -1
    ELSE IF b = <<>> THEN 1
    ELSE IF Head(a) < Head(b) THEN -1
    ELSE IF Head(a) > Head(b) THEN 1
    ELSE StrCompare(Tail(a), Tail(b))

VerTrip == Trip("QUERY", "rs_plan", <<"version">>, <<TRUE>>, FALSE)

\* mutant: cur_ver > pg_version
check_version_strict(d) ==
    LET cur_ver == read_stat(d, "version")
    IN  IF cur_ver = <<>>
        THEN [result |-> VersionErr, trips |-> <<VerTrip>>]
        ELSE IF StrCompare(Bytes(cur_ver[1]), Bytes(pg_version)) > 0
             THEN [result |-> PG_OK, trips |-> <<VerTrip>>]
             ELSE [result |-> VersionErr, trips |-> <<VerTrip>>]

check_version(d) ==
    LET cur_ver == read_stat(d, "version")
    IN  IF cur_ver = <<>>
        THEN [result |-> VersionErr, trips |-> <<VerTrip>>]
        ELSE IF StrCompare(Bytes(cur_ver[1]), Bytes(pg_version)) >= 0
             THEN [result |-> PG_OK, trips |-> <<VerTrip>>]
             ELSE [result |-> VersionErr, trips |-> <<VerTrip>>]

(***************************************************************************)
(* The process and the pipeline                                            *)
(***************************************************************************)
Ret(op, result) == [op |-> op, result |-> result]

Init ==
    /\ db = EmptyDb
    /\ cctx = new_copy_context
    /\ tctx = new_trx_context
    /\ last_sync_block_id_ = ""
    /\ pstate = "boot"
    /\ pc = "boot"
    /\ applied = 0
    /\ cur = 0
    /\ stopped_at = "none"
    /\ trips = <<>>
    /\ ret = Ret("none", PG_OK)
    /\ once = {}
    /\ conn_ = connect

\* an exception leaves the pipeline: the process stops where it is
Leave(result) ==
    IF result = PG_OK
    THEN pstate' = pstate /\ stopped_at' = stopped_at
    ELSE pstate' = "halted" /\ stopped_at' = pc

\* first run: the stats map is seeded, the pipeline starts at block 1
DoPrepareStats ==
    /\ pstate = "boot"
    /\ \E fault \in 0..2 :
         LET r == prepare_stats(db, fault)
         IN  /\ db' = r.db
             /\ trips' = r.trips
             /\ ret' = Ret("prepare_stats", r.result)
             /\ pstate' = IF r.result = PG_OK THEN "run" ELSE "halted"
             /\ pc' = IF r.result = PG_OK THEN "idle" ELSE pc
    /\ applied' = 0
    /\ UNCHANGED <<cctx, tctx, last_sync_block_id_, cur, stopped_at, once, conn_>>

\* later runs: the pipeline resumes after the block the checkpoint names
DoCheckLastSyncBlock ==
    /\ pstate = "boot"
    /\ \E latest \in get_latest_block_id(db) :
         LET r == check_last_sync_block(db, last_sync_block_id_, latest)
         IN  /\ last_sync_block_id_' = r.last_sync_block_id_
             /\ trips' = r.trips
             /\ ret' = Ret("check_last_sync_block", r.result)
             /\ pstate' = IF r.result = PG_OK THEN "run" ELSE "halted"
             /\ pc' = IF r.result = PG_OK THEN "idle" ELSE pc
             /\ applied' = IF r.result = PG_OK
                           THEN BlockNum(r.last_sync_block_id_) ELSE applied
    /\ UNCHANGED <<db, cctx, tctx, cur, stopped_at, once, conn_>>

BeginBlock ==
    /\ pstate = "run" /\ pc = "idle"
    /\ applied < MaxBlocks
    /\ cur' = applied + 1
    /\ cctx' = new_copy_context
    /\ tctx' = new_trx_context
    /\ pc' = "block"
    /\ trips' = <<>>
    /\ ret' = Ret("new_context", PG_OK)
    /\ UNCHANGED <<db, last_sync_block_id_, pstate, applied, stopped_at, once, conn_>>

AppendBlock ==
    /\ pstate = "run" /\ pc = "block"
    /\ cctx' = add_block(cctx, cur)
    /\ pc' = "rows"
    /\ trips' = <<>>
    /\ ret' = Ret("add_block", PG_OK)
    /\ UNCHANGED <<db, tctx, last_sync_block_id_, pstate, applied, cur, stopped_at, once, conn_>>

\* a transaction of the ledger carries an action: its row is followed by the
\* row of its action
AppendTrx ==
    /\ pstate = "run" /\ pc = "rows"
    /\ Len(cctx.trxs_copy_) < MaxTrxs
    /\ Len(cctx.actions_copy_) = Len(cctx.trxs_copy_)
    /\ cctx' = add_trx(cctx, cur, Len(cctx.trxs_copy_))
    /\ trips' = <<>>
    /\ ret' = Ret("add_trx", PG_OK)
    /\ UNCHANGED <<db, tctx, last_sync_block_id_, pstate, pc, applied, cur, stopped_at, once, conn_>>

AppendAction ==
    /\ pstate = "run" /\ pc = "rows"
    /\ Len(cctx.actions_copy_) < Len(cctx.trxs_copy_)
    /\ cctx' = add_action(cctx, cur, Len(cctx.trxs_copy_) - 1, Len(cctx.actions_copy_))
    /\ trips' = <<>>
    /\ ret' = Ret("add_action", PG_OK)
    /\ UNCHANGED <<db, tctx, last_sync_block_id_, pstate, pc, applied, cur, stopped_at, once, conn_>>

FlushCopy ==
    /\ pstate = "run" /\ pc = "rows"
    /\ Len(cctx.actions_copy_) = Len(cctx.trxs_copy_)
    /\ \E outs \in CopyScripts(cctx) :
         LET r == commit_copy_context(db, cctx, outs)
         IN  /\ db' = r.db
             /\ trips' = r.trips
             /\ ret' = Ret("commit_copy_context", r.result)
             /\ Leave(r.result)
             /\ pc' = IF r.result = PG_OK THEN "muts" ELSE pc
    /\ UNCHANGED <<cctx, tctx, last_sync_block_id_, applied, cur, once, conn_>>

NewDomain(name) ==
    [name |-> name, creator |-> "EVT1", issue |-> "i0", transfer |-> "t0", manage |-> "m0"]

Buffered(buf, plan) == {buf[i].args[1] : i \in {j \in 1..Len(buf) : buf[j].plan = plan}}

\* the ledger creates a domain once
BufferMutation ==
    /\ pstate = "run" /\ pc = "muts"
    /\ \E name \in DomainNames \ (DOMAIN db.domains \cup Buffered(tctx, "nd_plan")) :
         tctx' = add_domain(tctx, NewDomain(name))
    /\ trips' = <<>>
    /\ ret' = Ret("add_domain", PG_OK)
    /\ UNCHANGED <<db, cctx, last_sync_block_id_, pstate, pc, applied, cur, stopped_at, once, conn_>>

BufferCheckpoint ==
    /\ pstate = "run" /\ pc = "muts"
    /\ tctx' = upd_stat(tctx, "last_sync_block_id", BlockId(cur))
    /\ pc' = "stat"
    /\ trips' = <<>>
    /\ ret' = Ret("upd_stat", PG_OK)
    /\ UNCHANGED <<db, cctx, last_sync_block_id_, pstate, applied, cur, stopped_at, once, conn_>>

FlushTrx ==
    /\ pstate = "run" /\ pc = "stat"
    /\ \E fault \in 0..Len(tctx) :
         LET r == commit_trx_context(db, tctx, fault)
         IN  /\ db' = r.db
             /\ trips' = r.trips
             /\ ret' = Ret("commit_trx_context", r.result)
             /\ Leave(r.result)
             /\ pc' = IF r.result = PG_OK THEN "idle" ELSE pc
             /\ applied' = IF r.result = PG_OK THEN cur ELSE applied
    /\ UNCHANGED <<cctx, tctx, last_sync_block_id_, cur, once, conn_>>

Crash ==
    /\ pstate \in {"boot", "run"}
    /\ pstate' = "down"
    /\ stopped_at' = IF pstate = "run" THEN pc ELSE stopped_at
    /\ trips' = <<>>
    /\ ret' = Ret("crash", PG_OK)
    /\ UNCHANGED <<db, cctx, tctx, last_sync_block_id_, pc, applied, cur, once, conn_>>

\* a new process: the members of pg are constructed afresh
Restart ==
    /\ pstate \in {"down", "halted"}
    /\ pstate' = "boot"
    /\ pc' = "boot"
    /\ cctx' = new_copy_context
    /\ tctx' = new_trx_context
    /\ last_sync_block_id_' = ""
    /\ applied' = 0
    /\ cur' = 0
    /\ trips' = <<>>
    /\ ret' = Ret("restart", PG_OK)
    /\ UNCHANGED <<db, stopped_at>>
    /\ once' = {}
    /\ conn_' = connect

Next ==
    \/ DoPrepareStats
    \/ DoCheckLastSyncBlock
    \/ BeginBlock
    \/ AppendBlock
    \/ AppendTrx
    \/ AppendAction
    \/ FlushCopy
    \/ BufferMutation
    \/ BufferCheckpoint
    \/ FlushTrx
    \/ Crash
    \/ Restart

Spec == Init /\ [][Next]_vars

(***************************************************************************)
(* The methods of pg called by one caller in any order, one context alive  *)
(* at a time: pc is "copy" while the caller holds a copy_context, "trx"    *)
(* while it holds a trx_context.                                           *)
(***************************************************************************)
InitApi ==
    /\ db = EmptyDb
    /\ cctx = new_copy_context
    /\ tctx = new_trx_context
    /\ last_sync_block_id_ = ""
    /\ pstate = "run"
    /\ pc = "copy"
    /\ applied = 0
    /\ cur = 1
    /\ stopped_at = "none"
    /\ trips = <<>>
    /\ ret = Ret("none", PG_OK)
    /\ once = {}
    /\ conn_ = connect

driver == <<pstate, applied, cur, stopped_at, last_sync_block_id_, once, conn_>>

ApiNewCopyContext ==
    /\ cctx' = new_copy_context
    /\ tctx' = new_trx_context
    /\ pc' = "copy"
    /\ trips' = <<>>
    /\ ret' = Ret("new_copy_context", PG_OK)
    /\ UNCHANGED <<db, driver>>

ApiAddBlock ==
    /\ pc = "copy"
    /\ Len(cctx.blocks_copy_) < MaxTrxs
    /\ cctx' = add_block(cctx, cur)
    /\ trips' = <<>>
    /\ ret' = Ret("add_block", PG_OK)
    /\ UNCHANGED <<db, tctx, pc, driver>>

ApiAddTrx ==
    /\ pc = "copy"
    /\ Len(cctx.trxs_copy_) < MaxTrxs
    /\ cctx' = add_trx(cctx, cur, Len(cctx.trxs_copy_))
    /\ trips' = <<>>
    /\ ret' = Ret("add_trx", PG_OK)
    /\ UNCHANGED <<db, tctx, pc, driver>>

ApiAddAction ==
    /\ pc = "copy"
    /\ Len(cctx.actions_copy_) < MaxTrxs
    /\ cctx' = add_action(cctx, cur, 0, Len(cctx.actions_copy_))
    /\ trips' = <<>>
    /\ ret' = Ret("add_action", PG_OK)
    /\ UNCHANGED <<db, tctx, pc, driver>>

ApiCommitCopy ==
    /\ pc = "copy"
    /\ Len(db.blocks) + Len(cctx.blocks_copy_) <= MaxRows
    /\ Len(db.transactions) + Len(cctx.trxs_copy_) <= MaxRows
    /\ Len(db.actions) + Len(cctx.actions_copy_) <= MaxRows
    /\ \E outs \in CopyScripts(cctx) :
         LET r == commit_copy_context(db, cctx, outs)
         IN  /\ db' = r.db
             /\ trips' = r.trips
             /\ ret' = Ret("commit_copy_context", r.result)
    /\ UNCHANGED <<cctx, tctx, pc, driver>>

ApiNewTrxContext ==
    /\ tctx' = new_trx_context
    /\ cctx' = new_copy_context
    /\ pc' = "trx"
    /\ trips' = <<>>
    /\ ret' = Ret("new_trx_context", PG_OK)
    /\ UNCHANGED <<db, driver>>

ApiAddStat ==
    /\ pc = "trx"
    /\ Len(tctx) < MaxLines
    /\ tctx' = add_stat(tctx, "last_sync_block_id", "")
    /\ trips' = <<>>
    /\ ret' = Ret("add_stat", PG_OK)
    /\ UNCHANGED <<db, cctx, pc, driver>>

ApiUpdStat ==
    /\ pc = "trx"
    /\ Len(tctx) < MaxLines
    /\ tctx' = upd_stat(tctx, "last_sync_block_id", BlockId(cur))
    /\ trips' = <<>>
    /\ ret' = Ret("upd_stat", PG_OK)
    /\ UNCHANGED <<db, cctx, pc, driver>>

ApiAddDomain ==
    /\ pc = "trx"
    /\ Len(tctx) < MaxLines
    /\ \E name \in DomainNames : tctx' = add_domain(tctx, NewDomain(name))
    /\ trips' = <<>>
    /\ ret' = Ret("add_domain", PG_OK)
    /\ UNCHANGED <<db, cctx, pc, driver>>

ApiSetBlockIrreversible ==
    /\ pc = "trx"
    /\ Len(tctx) < MaxLines
    /\ tctx' = set_block_irreversible(tctx, BlockId(cur))
    /\ trips' = <<>>
    /\ ret' = Ret("set_block_irreversible", PG_OK)
    /\ UNCHANGED <<db, cctx, pc, driver>>

ApiCommitTrx ==
    /\ pc = "trx"
    /\ \E fault \in 0..Len(tctx) :
         LET r == commit_trx_context(db, tctx, fault)
         IN  /\ db' = r.db
             /\ trips' = r.trips
             /\ ret' = Ret("commit_trx_context", r.result)
    /\ UNCHANGED <<cctx, tctx, pc, driver>>

NextApi ==
    \/ ApiNewCopyContext
    \/ ApiAddBlock
    \/ ApiAddTrx
    \/ ApiAddAction
    \/ ApiCommitCopy
    \/ ApiNewTrxContext
    \/ ApiAddStat
    \/ ApiUpdStat
    \/ ApiAddDomain
    \/ ApiSetBlockIrreversible
    \/ ApiCommitTrx

SpecApi == InitApi /\ [][NextApi]_vars

(***************************************************************************)
(* The stats methods of pg called by one caller in any order, with any key *)
(* and value, on one trx context.                                          *)
(***************************************************************************)
StatKeys == {"version", "last_sync_block_id"}

StatValues(key) == IF key = "version" THEN Versions ELSE {"", BlockId(1)}

\* the last operation, its result and the arguments it was called with
RetIn(op, result, input) == [op |-> op, result |-> result, input |-> input]

InitStats ==
    /\ db = EmptyDb
    /\ cctx = new_copy_context
    /\ tctx = new_trx_context
    /\ last_sync_block_id_ = ""
    /\ pstate = "run"
    /\ pc = "trx"
    /\ applied = 0
    /\ cur = 1
    /\ stopped_at = "none"
    /\ trips = <<>>
    /\ ret = Ret("none", PG_OK)
    /\ once = {}
    /\ conn_ = connect

StNewTrxContext ==
    /\ tctx' = new_trx_context
    /\ trips' = <<>>
    /\ ret' = Ret("new_trx_context", PG_OK)
    /\ UNCHANGED <<db, cctx, pc, driver>>

StAddStat ==
    /\ Len(tctx) < MaxLines
    /\ \E key \in StatKeys : \E value \in StatValues(key) :
         /\ tctx' = add_stat(tctx, key, value)
         /\ ret' = RetIn("add_stat", PG_OK, <<key, value>>)
    /\ trips' = <<>>
    /\ UNCHANGED <<db, cctx, pc, driver>>

StUpdStat ==
    /\ Len(tctx) < MaxLines
    /\ \E key \in StatKeys : \E value \in StatValues(key) :
         /\ tctx' = upd_stat(tctx, key, value)
         /\ ret' = RetIn("upd_stat", PG_OK, <<key, value>>)
    /\ trips' = <<>>
    /\ UNCHANGED <<db, cctx, pc, driver>>

StCommitTrx ==
    /\ \E fault \in 0..Len(tctx) :
         LET r == commit_trx_context(db, tctx, fault)
         IN  /\ db' = r.db
             /\ trips' = r.trips
             /\ ret' = Ret("commit_trx_context", r.result)
    /\ UNCHANGED <<cctx, tctx, pc, driver>>

StPrepareStats ==
    /\ \E fault \in 0..2 :
         LET r == prepare_stats(db, fault)
         IN  /\ db' = r.db
             /\ trips' = r.trips
             /\ ret' = Ret("prepare_stats", r.result)
    /\ UNCHANGED <<cctx, tctx, pc, driver>>

StCheckVersion ==
    /\ LET r == check_version(db)
       IN  /\ trips' = r.trips
           /\ ret' = Ret("check_version", r.result)
    /\ UNCHANGED <<db, cctx, tctx, pc, driver>>

StCheckLastSyncBlock ==
    /\ \E latest \in get_latest_block_id(db) :
         LET r == check_last_sync_block(db, last_sync_block_id_, latest)
         IN  /\ last_sync_block_id_' = r.last_sync_block_id_
             /\ trips' = r.trips
             /\ ret' = Ret("check_last_sync_block", r.result)
    /\ UNCHANGED <<db, cctx, tctx, pc, pstate, applied, cur, stopped_at, once, conn_>>

NextStats ==
    \/ StNewTrxContext
    \/ StAddStat
    \/ StUpdStat
    \/ StCommitTrx
    \/ StPrepareStats
    \/ StCheckVersion
    \/ StCheckLastSyncBlock

SpecStats == InitStats /\ [][NextStats]_vars

(***************************************************************************)
(* add_tokens called with any issue-token action on one trx context.       *)
(***************************************************************************)
\* issuetoken: domain, names, owner
IssueTokens ==
    [domain : {"dom1"},
     names  : {<<>>, <<"t1">>, <<"t1", "t2">>, <<"t2", "t1">>},
     owner  : {<<>>, <<"EVT1">>, <<"EVT2", "EVT1">>}]

InitTokens == InitStats

TkNewTrxContext ==
    /\ tctx' = new_trx_context
    /\ trips' = <<>>
    /\ ret' = Ret("new_trx_context", PG_OK)
    /\ UNCHANGED <<db, cctx, pc, driver>>

TkAddTokens ==
    /\ \E it \in IssueTokens :
         /\ Len(tctx) + Len(it.names) <= MaxLines
         /\ tctx' = add_tokens(tctx, it)
         /\ ret' = RetIn("add_tokens", PG_OK, it)
    /\ trips' = <<>>
    /\ UNCHANGED <<db, cctx, pc, driver>>

TkCommitTrx ==
    /\ \E fault \in 0..Len(tctx) :
         LET r == commit_trx_context(db, tctx, fault)
         IN  /\ db' = r.db
             /\ trips' = r.trips
             /\ ret' = Ret("commit_trx_context", r.result)
    /\ UNCHANGED <<cctx, tctx, pc, driver>>

NextTokens ==
    \/ TkNewTrxContext
    \/ TkAddTokens
    \/ TkCommitTrx

SpecTokens == InitTokens /\ [][NextTokens]_vars

(***************************************************************************)
(* add_meta and the translators that create the rows metadata is attached  *)
(* to, called in any order on one trx context.                             *)
(***************************************************************************)
\* addmeta: key, value, creator
AddMeta == [key |-> "mk", value |-> "mv", creator |-> "EVT1"]

\* the add-meta actions: of a fungible, of a group, of a group whose name is
\* the meta marker, of a domain, of a token
MetaActs ==
    {[domain |-> dk[1], key |-> dk[2], data |-> AddMeta] :
        dk \in {<<FungibleMarker, "7">>, <<GroupMarker, "g1">>,
                <<GroupMarker, MetaMarker>>, <<"dom1", MetaMarker>>, <<"dom1", "t1">>}}

NewGroup == [name |-> "g1", key |-> "EVT1", def |-> "d0"]

NewFungible ==
    [name |-> "f1", sym_name |-> "F", sym |-> "5,S#7", sym_id |-> "7", creator |-> "EVT1",
     issue |-> "i0", manage |-> "m0"]

IssueToken == [domain |-> "dom1", names |-> <<"t1">>, owner |-> <<"EVT1">>]

\* lines one trx context takes, metas rows the sequence gives ids for
MaxMetaLines == MaxLines + 1

MaxMetas == MaxLines

AmLines(buf) == Cardinality({i \in 1..Len(buf) : buf[i].plan = "am_plan"})

InitMeta == InitStats

MtNewTrxContext ==
    /\ tctx' = new_trx_context
    /\ trips' = <<>>
    /\ ret' = Ret("new_trx_context", PG_OK)
    /\ UNCHANGED <<db, cctx, pc, driver>>

MtAddDomain ==
    /\ Len(tctx) < MaxMetaLines
    /\ tctx' = add_domain(tctx, NewDomain("dom1"))
    /\ trips' = <<>>
    /\ ret' = Ret("add_domain", PG_OK)
    /\ UNCHANGED <<db, cctx, pc, driver>>

MtAddTokens ==
    /\ Len(tctx) < MaxMetaLines
    /\ tctx' = add_tokens(tctx, IssueToken)
    /\ trips' = <<>>
    /\ ret' = Ret("add_tokens", PG_OK)
    /\ UNCHANGED <<db, cctx, pc, driver>>

MtAddGroup ==
    /\ Len(tctx) < MaxMetaLines
    /\ tctx' = add_group(tctx, NewGroup)
    /\ trips' = <<>>
    /\ ret' = Ret("add_group", PG_OK)
    /\ UNCHANGED <<db, cctx, pc, driver>>

MtAddFungible ==
    /\ Len(tctx) < MaxMetaLines
    /\ tctx' = add_fungible(tctx, NewFungible)
    /\ trips' = <<>>
    /\ ret' = Ret("add_fungible", PG_OK)
    /\ UNCHANGED <<db, cctx, pc, driver>>

MtAddMeta ==
    /\ Len(tctx) + 2 <= MaxMetaLines
    /\ db.metas_id_seq + AmLines(tctx) < MaxMetas
    /\ \E act \in MetaActs :
         /\ tctx' = add_meta(tctx, act)
         /\ ret' = RetIn("add_meta", PG_OK, act)
    /\ trips' = <<>>
    /\ UNCHANGED <<db, cctx, pc, driver>>

MtCommitTrx ==
    /\ db.metas_id_seq + AmLines(tctx) <= MaxMetas
    /\ \E fault \in 0..Len(tctx) :
         LET r == commit_trx_context(db, tctx, fault)
         IN  /\ db' = r.db
             /\ trips' = r.trips
             /\ ret' = Ret("commit_trx_context", r.result)
    /\ UNCHANGED <<cctx, tctx, pc, driver>>

NextMeta ==
    \/ MtNewTrxContext
    \/ MtAddDomain
    \/ MtAddTokens
    \/ MtAddGroup
    \/ MtAddFungible
    \/ MtAddMeta
    \/ MtCommitTrx

SpecMeta == InitMeta /\ [][NextMeta]_vars

(***************************************************************************)
(* The text of the statement log.  A text is a sequence of chars; the      *)
(* fixed words of a format string ("EXECUTE as_plan(", "lastval()") are    *)
(* kept as one element each.                                               *)
(***************************************************************************)
MaxLen == 3     \* chars of an interpolated value

Chars == {"a", "'", "\\", "\t", "\n"}

Texts == UNION {[1..n -> Chars] : n \in 0..MaxLen}

\* '{}' of a format string: the value between single quotes, as it is
InQuotes(value) == <<"'">> \o value \o <<"'">>

\* fmt("EXECUTE as_plan('{}','{}');\n"), key, value
add_stat_text(buf, key, value) ==
    buf \o <<"EXECUTE as_plan(">> \o InQuotes(key) \o <<",">> \o InQuotes(value)
        \o <<")", ";", "\n">>

\* fmt("EXECUTE am_plan('{}','{}','{}');\n"), am.key, am.value, am.creator, then
\* fmt("EXECUTE amd_plan(lastval(),'{}');\n"), act.domain of a domain's action
add_meta_text(buf, act) ==
    buf \o <<"EXECUTE am_plan(">> \o InQuotes(act.data.key) \o <<",">>
        \o InQuotes(act.data.value) \o <<",">> \o InQuotes(act.data.creator)
        \o <<")", ";", "\n">>
        \o <<"EXECUTE amd_plan(", "lastval()", ",">> \o InQuotes(act.domain)
        \o <<")", ";", "\n">>

PlanOfHead(c) ==
    CASE c = "EXECUTE as_plan("  -> "as_plan"
      [] c = "EXECUTE am_plan("  -> "am_plan"
      [] c = "EXECUTE amd_plan(" -> "amd_plan"
      [] OTHER -> ""

IsSpace(c) == c \in {"\t", "\n"}

SyntaxError == [ok |-> FALSE, stmts |-> <<>>]

\* The store's reading of a script from char i on.  mode is the place in the
\* grammar: "top" between statements, "args" before an argument, "str"
\* inside a string constant, "after" behind an argument, "close" behind the
\* parenthesis.  In a string constant two single quotes are one quote char, a
\* backslash is a char like any other (standard_conforming_strings), and a
\* constant is continued by a constant that follows it on a later line (nl).
RECURSIVE ParseScript(_, _, _, _, _, _, _)
ParseScript(text, i, mode, nl, arg, stmt, stmts) ==
    IF i > Len(text)
    THEN IF mode = "top" THEN [ok |-> TRUE, stmts |-> stmts] ELSE SyntaxError
    ELSE LET c == text[i]
         IN  CASE mode = "top" ->
                    IF IsSpace(c) THEN ParseScript(text, i + 1, mode, FALSE, arg, stmt, stmts)
                    ELSE IF PlanOfHead(c) # ""
                    THEN ParseScript(text, i + 1, "args", FALSE, <<>>,
                                     Line(PlanOfHead(c), <<>>), stmts)
                    ELSE SyntaxError
               [] mode = "args" ->
                    IF IsSpace(c) THEN ParseScript(text, i + 1, mode, FALSE, arg, stmt, stmts)
                    ELSE IF c = "'"
                    THEN ParseScript(text, i + 1, "str", FALSE, <<>>, stmt, stmts)
                    ELSE IF c = "lastval()"
                    THEN ParseScript(text, i + 1, "after", FALSE, <<c>>, stmt, stmts)
                    ELSE SyntaxError
               [] mode = "str" ->
                    IF c # "'"
                    THEN ParseScript(text, i + 1, mode, FALSE, Append(arg, c), stmt, stmts)
                    ELSE IF i < Len(text) /\ text[i + 1] = "'"
                    THEN ParseScript(text, i + 2, mode, FALSE, Append(arg, "'"), stmt, stmts)
                    ELSE ParseScript(text, i + 1, "after", FALSE, arg, stmt, stmts)
               [] mode = "after" ->
                    IF IsSpace(c)
                    THEN ParseScript(text, i + 1, mode, nl \/ c = "\n", arg, stmt, stmts)
                    ELSE IF c = "'" /\ nl
                    THEN ParseScript(text, i + 1, "str", FALSE, arg, stmt, stmts)
                    ELSE IF c = ","
                    THEN ParseScript(text, i + 1, "args", FALSE, <<>>,
                                     [stmt EXCEPT !.args = Append(@, arg)], stmts)
                    ELSE IF c = ")"
                    THEN ParseScript(text, i + 1, "close", FALSE, <<>>,
                                     [stmt EXCEPT !.args = Append(@, arg)], stmts)
                    ELSE SyntaxError
               [] mode = "close" ->
                    IF IsSpace(c) THEN ParseScript(text, i + 1, mode, FALSE, arg, stmt, stmts)
                    ELSE IF c = ";"
                    THEN ParseScript(text, i + 1, "top", FALSE, <<>>, stmt, Append(stmts, stmt))
                    ELSE SyntaxError

\* PQexec(conn_, stmts.c_str()): the statements the store reads
PQexecText(text) == ParseScript(text, 1, "top", FALSE, <<>>, Line("", <<>>), <<>>)

\* addmeta whose value is free text; the key and the creator are names
MetaTextActs ==
    {[domain |-> <<"d">>, key |-> <<".meta">>,
      data |-> [key |-> <<"k">>, value |-> v, creator |-> <<"c">>]] : v \in Texts}

InitText ==
    /\ db = EmptyDb
    /\ cctx = new_copy_context
    /\ tctx = <<>>
    /\ last_sync_block_id_ = ""
    /\ pstate = "run"
    /\ pc = "trx"
    /\ applied = 0
    /\ cur = 1
    /\ stopped_at = "none"
    /\ trips = <<>>
    /\ ret = RetIn("new_trx_context", PG_OK, <<>>)
    /\ once = {}
    /\ conn_ = connect

TxNewTrxContext ==
    /\ ret.op # "new_trx_context"
    /\ tctx' = <<>>
    /\ trips' = <<>>
    /\ ret' = RetIn("new_trx_context", PG_OK, <<>>)
    /\ UNCHANGED <<db, cctx, pc, driver>>

TxAddStat ==
    /\ ret.op = "new_trx_context"
    /\ \E key \in {<<"a">>} : \E value \in Texts :
         /\ tctx' = add_stat_text(tctx, key, value)
         /\ ret' = RetIn("add_stat", PG_OK, <<key, value>>)
    /\ trips' = <<>>
    /\ UNCHANGED <<db, cctx, pc, driver>>

TxAddMeta ==
    /\ ret.op = "new_trx_context"
    /\ \E act \in MetaTextActs :
         /\ tctx' = add_meta_text(tctx, act)
         /\ ret' = RetIn("add_meta", PG_OK, act)
    /\ trips' = <<>>
    /\ UNCHANGED <<db, cctx, pc, driver>>

\* the flush: the store reads the text of the log
TxCommitTrx ==
    /\ ret.op \in {"add_stat", "add_meta"}
    /\ LET r == PQexecText(tctx)
       IN  /\ trips' = <<Trip("EXEC", "", r.stmts, <<r.ok>>, ~r.ok)>>
           /\ ret' = RetIn("commit_trx_context", IF r.ok THEN PG_OK ELSE ExecErr, ret.input)
    /\ UNCHANGED <<db, cctx, tctx, pc, driver>>

NextText ==
    \/ TxNewTrxContext
    \/ TxAddStat
    \/ TxAddMeta
    \/ TxCommitTrx

SpecText == InitText /\ [][NextText]_vars

(***************************************************************************)
(* add_trx: the array columns of a transactions row, for any transaction.  *)
(***************************************************************************)
Signatures == {"SIG1", "SIG2", "SIG3"}

\* signed_transaction: its signatures, no signature twice
Strxs ==
    {[signatures |-> s] : s \in
        {<<>>} \cup {<<a>> : a \in Signatures}
        \cup {x \in [1..2 -> Signatures] : x[1] # x[2]}
        \cup {x \in [1..3 -> Signatures] : Cardinality({x[i] : i \in 1..3}) = 3}}

\* strx.get_signature_keys(chain_id): the keys the signatures recover to, one
\* for each signature, in the order of the keys (a flat_set)
get_signature_keys(strx) ==
    LET PublicKey(sig) == CASE sig = "SIG1" -> "EVT2"
                            [] sig = "SIG2" -> "EVT1"
                            [] sig = "SIG3" -> "EVT3"
    IN  SelectSeq(<<"EVT1", "EVT2", "EVT3">>,
                  LAMBDA k : \E i \in 1..Len(strx.signatures) :
                                 PublicKey(strx.signatures[i]) = k)

\* "{", every signature but the last followed by a comma, the last, "}"
signatures_text(strx) ==
    LET n == Len(strx.signatures)
    IN  <<Lbrace>>
        \o (IF n = 0 THEN <<>>
            ELSE [j \in 1..(2 * (n - 1)) |->
                     IF j % 2 = 1 THEN Quoted(strx.signatures[(j + 1) \div 2]) ELSE Comma]
                 \o <<Quoted(strx.signatures[n])>>)
        \o <<Rbrace>>

\* "{", every key followed by a comma (i < keys.size()), the last key, "}"
keys_text(strx) ==
    LET keys == get_signature_keys(strx)
        n    == Len(keys)
    IN  <<Lbrace>>
        \o (IF Len(strx.signatures) = 0 THEN <<>>
            ELSE [j \in 1..(2 * n) |->
                     IF j % 2 = 1 THEN Quoted(keys[(j + 1) \div 2]) ELSE Comma]
                 \o <<Quoted(keys[n])>>)
        \o <<Rbrace>>

\* rows one trxs_copy_ takes
MaxTrxRows == MaxRows + 1

TrNewCopyContext ==
    /\ cctx' = new_copy_context
    /\ trips' = <<>>
    /\ ret' = Ret("new_copy_context", PG_OK)
    /\ UNCHANGED <<db, tctx, pc, driver>>

\* add_trx: the row of add_trx with its signatures and keys columns
TrAddTrx ==
    /\ Len(cctx.trxs_copy_) < MaxTrxRows
    /\ \E strx \in Strxs :
         LET seq_num == Len(cctx.trxs_copy_) + 1
             c       == add_trx(cctx, cur, seq_num)
         IN  /\ cctx' = [c EXCEPT !.trxs_copy_[seq_num] =
                            Put(Put(@, "signatures", signatures_text(strx)),
                                "keys", keys_text(strx))]
             /\ ret' = RetIn("add_trx", PG_OK, strx)
    /\ trips' = <<>>
    /\ UNCHANGED <<db, tctx, pc, driver>>

NextTrx ==
    \/ TrNewCopyContext
    \/ TrAddTrx

SpecTrx == InitStats /\ [][NextTrx]_vars

(***************************************************************************)
(* The update translators and the translators that create the rows they    *)
(* update, called in any order on one trx context; the store executes      *)
(* every statement of a flushed log.                                       *)
(***************************************************************************)
\* updatedomain: name, optional issue, transfer, manage
UpdateDomains ==
    [name : {"dom1"}, issue : {<<>>, <<"i1">>}, transfer : {<<>>, <<"tr1">>},
     manage : {<<>>, <<"m1">>}]

\* updategroup: name, group
UpdateGroups == [name : {"g1"}, def : {"d1"}]

\* updfungible: sym_id, optional issue, manage
UpdFungibles == [sym_id : {"7"}, issue : {<<>>, <<"i1">>}, manage : {<<>>, <<"m1">>}]

UpUpdDomain ==
    /\ Len(tctx) < MaxLines
    /\ \E ud \in UpdateDomains :
         /\ tctx' = upd_domain(tctx, ud)
         /\ ret' = RetIn("upd_domain", PG_OK, ud)
    /\ trips' = <<>>
    /\ UNCHANGED <<db, cctx, pc, driver>>

UpUpdGroup ==
    /\ Len(tctx) < MaxLines
    /\ \E ug \in UpdateGroups :
         /\ tctx' = upd_group(tctx, ug)
         /\ ret' = RetIn("upd_group", PG_OK, ug)
    /\ trips' = <<>>
    /\ UNCHANGED <<db, cctx, pc, driver>>

UpUpdFungible ==
    /\ Len(tctx) < MaxLines
    /\ \E uf \in UpdFungibles :
         /\ tctx' = upd_fungible(tctx, uf)
         /\ ret' = RetIn("upd_fungible", PG_OK, uf)
    /\ trips' = <<>>
    /\ UNCHANGED <<db, cctx, pc, driver>>

\* the flush: no statement fails but by what it is
UpCommitTrx ==
    /\ LET r == commit_trx_context(db, tctx, 0)
       IN  /\ db' = r.db
           /\ trips' = r.trips
           /\ ret' = Ret("commit_trx_context", r.result)
    /\ UNCHANGED <<cctx, tctx, pc, driver>>

NextUpd ==
    \/ MtNewTrxContext
    \/ MtAddDomain
    \/ MtAddGroup
    \/ MtAddFungible
    \/ UpUpdDomain
    \/ UpUpdGroup
    \/ UpUpdFungible
    \/ UpCommitTrx

SpecUpd == InitStats /\ [][NextUpd]_vars

(***************************************************************************)
(* Prepare-once.  Every operation that uses a prepared statement opens     *)
(* with one std::call_once over a static flag; the flags are the process's *)
(* and the prepared statements the session's.  The operations are called   *)
(* in any order, each translator on a new trx context, and the session is  *)
(* closed and opened again.                                                *)
(***************************************************************************)
Translators ==
    {"add_stat", "upd_stat", "set_block_irreversible", "add_domain", "upd_domain",
     "add_tokens", "upd_token", "del_token", "add_group", "upd_group", "add_fungible",
     "upd_fungible", "add_meta"}

\* the names the once block of an operation passes to PQprepare, in order
Registered(op) ==
    CASE op = "set_block_irreversible" -> <<"sbi_plan">>
      [] op = "add_stat"     -> <<"as_plan">>
      [] op = "read_stat"    -> <<"rs_plan">>
      [] op = "upd_stat"     -> <<"us_plan">>
      [] op = "add_domain"   -> <<"nd_plan">>
      [] op = "upd_domain"   -> <<"ud_plan">>
      [] op = "add_tokens"   -> <<"it_plan">>
      [] op = "upd_token"    -> <<"tf_plan">>
      [] op = "del_token"    -> <<"dt_plan">>
      [] op = "add_group"    -> <<"ng_plan">>
      [] op = "upd_group"    -> <<"ug_plan">>
      [] op = "add_fungible" -> <<"nf_plan">>
      [] op = "upd_fungible" -> <<"uf_plan">>
      [] op = "add_meta"     -> <<"am_plan", "amd_plan", "amt_plan", "amg_plan", "amf_plan">>

\* the number of parameters $1, $2, .. of the SQL a name is prepared with
Params(plan) ==
    CASE plan \in {"sbi_plan", "rs_plan", "dt_plan"} -> 1
      [] plan \in {"as_plan", "us_plan", "tf_plan", "ug_plan", "amd_plan", "amt_plan",
                   "amg_plan", "amf_plan"} -> 2
      [] plan \in {"ng_plan", "uf_plan", "am_plan"} -> 3
      [] plan \in {"ud_plan", "it_plan"} -> 4
      [] plan = "nd_plan" -> 5
      [] plan = "nf_plan" -> 7
      [] OTHER -> 0

\* mutant: the flag counts only while the session has the statements
PREPARE_SQL_ONCE_per_session(flags, sess, op, fails) ==
    LET names == Registered(op)
        bad   == {i \in 1..Len(names) : i = fails \/ names[i] \in sess.prepared}
        sent  == IF bad = {} THEN Len(names)
                 ELSE CHOOSE i \in bad : \A j \in bad : i <= j
        done  == IF bad = {} THEN sent ELSE sent - 1
    IN  IF op \in flags /\ \A i \in 1..Len(names) : names[i] \in sess.prepared
        THEN [once |-> flags, conn_ |-> sess, trips |-> <<>>, result |-> PG_OK]
        ELSE [once   |-> IF bad = {} THEN flags \cup {op} ELSE flags,
              conn_  |-> [sess EXCEPT !.prepared = @ \cup {names[i] : i \in 1..done}],
              trips  |-> [i \in 1..sent |->
                            Trip("PREPARE", names[i], <<>>, <<i \notin bad>>, i \in bad)],
              result |-> IF bad = {} THEN PG_OK ELSE ExecErr]

\* std::call_once(flag, ..) over the PQprepare calls of an operation.  With the
\* flag set nothing is sent.  Else the names are sent in order; PQprepare fails
\* for the fails-th of them (0: for none) and for a name the session already
\* has; EVT_ASSERT then throws out of the callable, the flag stays unset and
\* the names sent before stay prepared.
PREPARE_SQL_ONCE(flags, sess, op, fails) ==
    LET names == Registered(op)
        bad   == {i \in 1..Len(names) : i = fails \/ names[i] \in sess.prepared}
        sent  == IF bad = {} THEN Len(names)
                 ELSE CHOOSE i \in bad : \A j \in bad : i <= j
        done  == IF bad = {} THEN sent ELSE sent - 1
    IN  IF op \in flags
        THEN [once |-> flags, conn_ |-> sess, trips |-> <<>>, result |-> PG_OK]
        ELSE [once   |-> IF bad = {} THEN flags \cup {op} ELSE flags,
              conn_  |-> [sess EXCEPT !.prepared = @ \cup {names[i] : i \in 1..done}],
              trips  |-> [i \in 1..sent |->
                            Trip("PREPARE", names[i], <<>>, <<i \notin bad>>, i \in bad)],
              result |-> IF bad = {} THEN PG_OK ELSE ExecErr]

\* the lines a translator appends for one action
Translate(op, buf) ==
    CASE op = "set_block_irreversible" -> set_block_irreversible(buf, BlockId(1))
      [] op = "add_stat"     -> add_stat(buf, "version", pg_version)
      [] op = "upd_stat"     -> upd_stat(buf, "last_sync_block_id", BlockId(1))
      [] op = "add_domain"   -> add_domain(buf, NewDomain("dom1"))
      [] op = "upd_domain"   ->
            upd_domain(buf, [name |-> "dom1", issue |-> <<"i1">>, transfer |-> <<"tr1">>,
                             manage |-> <<"m1">>])
      [] op = "add_tokens"   -> add_tokens(buf, IssueToken)
      [] op = "upd_token"    ->
            upd_token(buf, [domain |-> "dom1", name |-> "t1", to |-> <<"EVT2">>])
      [] op = "del_token"    -> del_token(buf, [domain |-> "dom1", name |-> "t1"])
      [] op = "add_group"    -> add_group(buf, NewGroup)
      [] op = "upd_group"    -> upd_group(buf, [name |-> "g1", def |-> "d1"])
      [] op = "add_fungible" -> add_fungible(buf, NewFungible)
      [] op = "upd_fungible" ->
            upd_fungible(buf, [sym_id |-> "7", issue |-> <<"i1">>, manage |-> <<"m1">>])
      [] op = "add_meta"     ->
            add_meta(buf, [domain |-> "dom1", key |-> MetaMarker, data |-> AddMeta])

\* once flags one process run sets
MaxOnce == MaxLines

\* a translator: the once block, then the lines
PrTranslate(op) ==
    /\ conn_.open
    /\ Len(tctx) = 0
    /\ op \in once \/ Cardinality(once) < MaxOnce
    /\ \E fails \in 0..Len(Registered(op)) :
         LET p == PREPARE_SQL_ONCE(once, conn_, op, fails)
         IN  /\ once' = p.once
             /\ conn_' = p.conn_
             /\ trips' = p.trips
             /\ ret' = Ret(op, p.result)
             /\ tctx' = IF p.result = PG_OK THEN Translate(op, tctx) ELSE tctx
    /\ UNCHANGED <<db, cctx, pc, pstate, applied, cur, stopped_at, last_sync_block_id_>>

\* read_stat: the once block, then PQexecPrepared of rs_plan, which fails when
\* the session has no statement of that name
PrReadStat ==
    /\ conn_.open
    /\ "read_stat" \in once \/ Cardinality(once) < MaxOnce
    /\ \E fails \in 0..1 :
         LET p  == PREPARE_SQL_ONCE(once, conn_, "read_stat", fails)
             ok == "rs_plan" \in p.conn_.prepared
         IN  /\ once' = p.once
             /\ conn_' = p.conn_
             /\ trips' = IF p.result = PG_OK
                         THEN p.trips \o <<Trip("QUERY", "rs_plan", <<"version">>, <<ok>>, ~ok)>>
                         ELSE p.trips
             /\ ret' = RetIn("read_stat", IF p.result = PG_OK /\ ok THEN PG_OK ELSE ExecErr,
                             IF p.result = PG_OK /\ ok THEN read_stat(db, "version") ELSE <<>>)
    /\ UNCHANGED <<db, cctx, tctx, pc, pstate, applied, cur, stopped_at,
                   last_sync_block_id_>>

\* the flush on the session: EXECUTE of a name the session has no statement
\* for is the statement that fails
PrCommitTrx ==
    /\ conn_.open
    /\ db.metas_id_seq + AmLines(tctx) <= MaxMetas
    /\ LET bad   == {i \in 1..Len(tctx) : tctx[i].plan \notin conn_.prepared}
           fault == IF bad = {} THEN 0 ELSE CHOOSE i \in bad : \A j \in bad : i <= j
           r     == commit_trx_context(db, tctx, fault)
       IN  /\ db' = r.db
           /\ trips' = r.trips
           /\ ret' = Ret("commit_trx_context", r.result)
    /\ UNCHANGED <<cctx, tctx, pc, driver>>

PrClose ==
    /\ conn_.open
    /\ conn_' = close
    /\ trips' = <<>>
    /\ ret' = Ret("close", PG_OK)
    /\ UNCHANGED <<db, cctx, tctx, pc, pstate, applied, cur, stopped_at,
                   last_sync_block_id_, once>>

PrConnect ==
    /\ ~conn_.open
    /\ conn_' = connect
    /\ trips' = <<>>
    /\ ret' = Ret("connect", PG_OK)
    /\ UNCHANGED <<db, cctx, tctx, pc, pstate, applied, cur, stopped_at,
                   last_sync_block_id_, once>>

NextPrep ==
    \/ MtNewTrxContext
    \/ \E op \in Translators : PrTranslate(op)
    \/ PrReadStat
    \/ PrCommitTrx
    \/ PrClose
    \/ PrConnect

SpecPrep == InitStats /\ [][NextPrep]_vars

(***************************************************************************)
(* Vocabulary of the properties, stated on the tables themselves           *)
(***************************************************************************)
Checkpoint(d) ==
    IF "last_sync_block_id" \in DOMAIN d.stats
    THEN <<d.stats["last_sync_block_id"]>> ELSE <<>>

\* ids of the blocks rows that no row exceeds in block_num
GreatestNumIds(d) ==
    {d.blocks[i].block_id : i \in
        {j \in 1..Len(d.blocks) :
            \A k \in 1..Len(d.blocks) : d.blocks[k].block_num <= d.blocks[j].block_num}}

HasBlockRow(d, id) == \E i \in 1..Len(d.blocks) : d.blocks[i].block_id = id

CopyTables(ts) == [i \in 1..Len(ts) |-> ts[i].target]

(***************************************************************************)
(* C1: whenever the pipeline has applied blocks 1..n and every commit      *)
(* succeeded, the stat last_sync_block_id is the id of block n and the     *)
(* blocks row of greatest block_num has that id.                           *)
(***************************************************************************)
C1_CheckpointIsLastApplied ==
    (pstate = "run" /\ pc = "idle" /\ applied > 0) =>
        /\ Checkpoint(db) = <<BlockId(applied)>>
        /\ GreatestNumIds(db) = {BlockId(applied)}

C1_Witness ==
    /\ pstate = "run" /\ pc = "idle" /\ applied = 2
    /\ ret = Ret("commit_trx_context", PG_OK)
    /\ Checkpoint(db) = <<BlockId(2)>>

(***************************************************************************)
(* C2: when the process stopped after the copy context of block B was      *)
(* committed and before B's trx context was committed, a later             *)
(* check_last_sync_block raises a sync error.                              *)
(***************************************************************************)
C2_CrashBetweenFlushesDetected ==
    (ret.op = "check_last_sync_block" /\ stopped_at \in {"muts", "stat"}) =>
        ret.result = SyncErr

C2_Witness ==
    /\ ret = Ret("check_last_sync_block", SyncErr)
    /\ stopped_at = "stat"
    /\ HasBlockRow(db, BlockId(2))
    /\ Checkpoint(db) = <<BlockId(1)>>

(***************************************************************************)
(* C3: in every reachable state the stored last_sync_block_id is the empty *)
(* marker or the id of a block whose row is in the blocks table.           *)
(***************************************************************************)
C3_CheckpointNamesStoredBlock ==
    \/ Checkpoint(db) = <<>>
    \/ Checkpoint(db) = <<"">>
    \/ HasBlockRow(db, Checkpoint(db)[1])

C3_Witness ==
    /\ pstate = "halted" /\ stopped_at = "rows"
    /\ Checkpoint(db) = <<BlockId(1)>>
    /\ HasBlockRow(db, BlockId(1))
    /\ ~HasBlockRow(db, BlockId(2))

(***************************************************************************)
(* C4: upd_stat only appends the checkpoint line to the trx context; the   *)
(* stored checkpoint changes only in a successful commit, which also       *)
(* applies every mutation line buffered before it; a failed commit of the  *)
(* trx context changes nothing in the store.                               *)
(***************************************************************************)
MutationsApplied(buf, before, after) ==
    \A i \in 1..Len(buf) :
        buf[i].plan = "nd_plan" =>
            /\ buf[i].args[1] \notin DOMAIN before.domains
            /\ buf[i].args[1] \in DOMAIN after.domains
            /\ after.domains[buf[i].args[1]].creator = buf[i].args[2]

C4_Step ==
    /\ ret'.op = "upd_stat" =>
          /\ db' = db
          /\ tctx' = Append(tctx, Line("us_plan", <<BlockId(cur), "last_sync_block_id">>))
    /\ Checkpoint(db') # Checkpoint(db) =>
          /\ ret'.result = PG_OK
          /\ \/ ret'.op = "prepare_stats"
             \/ /\ ret'.op = "commit_trx_context"
                /\ \E i \in 1..Len(tctx) :
                      /\ tctx[i].plan \in {"as_plan", "us_plan"}
                      /\ Checkpoint(db') \in {<<tctx[i].args[1]>>, <<tctx[i].args[2]>>}
                /\ MutationsApplied(tctx, db, db')
    /\ (ret'.op = "commit_trx_context" /\ ret'.result # PG_OK) => db' = db

C4_CheckpointCommitsWithMutations == [][C4_Step]_vars

C4_Witness ==
    /\ ret = Ret("commit_trx_context", PG_OK)
    /\ Len(tctx) = 2
    /\ tctx[1].plan = "nd_plan"
    /\ tctx[2].plan = "us_plan"
    /\ Checkpoint(db) = <<BlockId(cur)>>
    /\ tctx[1].args[1] \in DOMAIN db.domains

(***************************************************************************)
(* C5: check_last_sync_block raises a sync error when the stat is absent   *)
(* and when it differs from the id of the latest blocks row; when they are *)
(* equal it returns OK and sets last_sync_block_id_; it never changes the  *)
(* store.                                                                  *)
(***************************************************************************)
C5_Result ==
    ret.op = "check_last_sync_block" =>
        /\ Checkpoint(db) = <<>> => ret.result = SyncErr
        /\ (Checkpoint(db) # <<>> /\ Len(db.blocks) > 0 /\
            Checkpoint(db)[1] \notin GreatestNumIds(db)) => ret.result = SyncErr
        /\ (Checkpoint(db) # <<>> /\ Len(db.blocks) > 0 /\
            GreatestNumIds(db) = {Checkpoint(db)[1]}) =>
                /\ ret.result = PG_OK
                /\ last_sync_block_id_ = Checkpoint(db)[1]

C5_SyncCheck ==
    /\ []C5_Result
    /\ [][ret'.op = "check_last_sync_block" => db' = db]_vars

C5_Witness ==
    /\ ret = Ret("check_last_sync_block", PG_OK)
    /\ last_sync_block_id_ = BlockId(2)
    /\ GreatestNumIds(db) = {BlockId(2)}

(***************************************************************************)
(* C6: committing a copy context whose three buffers are empty, or a trx   *)
(* context whose log is empty, makes no round trip and leaves the store    *)
(* unchanged.                                                              *)
(***************************************************************************)
C6_Step ==
    /\ (ret'.op = "commit_copy_context" /\ cctx = new_copy_context) =>
          (trips' = <<>> /\ db' = db /\ ret'.result = PG_OK)
    /\ (ret'.op = "commit_trx_context" /\ Len(tctx) = 0) =>
          (trips' = <<>> /\ db' = db /\ ret'.result = PG_OK)

C6_EmptyCommitIsNoOp == [][C6_Step]_vars

C6_Witness ==
    /\ ret = Ret("commit_trx_context", PG_OK)
    /\ Len(tctx) = 0
    /\ trips = <<>>
    /\ "last_sync_block_id" \in DOMAIN db.stats

(***************************************************************************)
(* C7: commit_copy_context makes one COPY for each non-empty buffer and    *)
(* none for an empty one, in the order blocks, transactions, actions; the  *)
(* sequence is cut short only by the exception of the COPY made last.      *)
(***************************************************************************)
NonEmptyTables(c) ==
    (IF Len(c.blocks_copy_) > 0 THEN <<"blocks">> ELSE <<>>)
    \o (IF Len(c.trxs_copy_) > 0 THEN <<"transactions">> ELSE <<>>)
    \o (IF Len(c.actions_copy_) > 0 THEN <<"actions">> ELSE <<>>)

BufferOf(c, table) ==
    CASE table = "blocks" -> c.blocks_copy_
      [] table = "transactions" -> c.trxs_copy_
      [] table = "actions" -> c.actions_copy_

C7_OneCopyPerNonEmptyBuffer ==
    ret.op = "commit_copy_context" =>
        LET want == NonEmptyTables(cctx)
        IN  /\ Len(trips) <= Len(want)
            /\ CopyTables(trips) = SubSeq(want, 1, Len(trips))
            /\ \A i \in 1..Len(trips) :
                  /\ trips[i].op = "COPY"
                  /\ trips[i].payload = BufferOf(cctx, trips[i].target)
            /\ ret.result = PG_OK => Len(trips) = Len(want)
            /\ Len(trips) < Len(want) =>
                  (Len(trips) > 0 /\ trips[Len(trips)].raised /\ ret.result = ExecErr)

C7_Witness ==
    /\ ret = Ret("commit_copy_context", PG_OK)
    /\ CopyTables(trips) = <<"blocks", "actions">>
    /\ Len(cctx.trxs_copy_) = 0

(***************************************************************************)
(* C8: when a table's bulk ingest fails in commit_copy_context, the call   *)
(* raises an execution error, no later table is flushed, and the process   *)
(* performs no further flush: the pipeline has stopped.                    *)
(***************************************************************************)
C8_Result ==
    ret.op = "commit_copy_context" =>
        \A i \in 1..Len(trips) :
            ~Ingested(trips[i].steps) =>
                /\ i = Len(trips)
                /\ ret.result = ExecErr
                /\ pstate = "halted"

C8_CopyFailureStopsPipeline ==
    /\ []C8_Result
    /\ [][pstate = "halted" => (ret'.op = "restart" /\ db' = db)]_vars

C8_Witness ==
    /\ ret = Ret("commit_copy_context", ExecErr)
    /\ Len(trips) = 2
    /\ trips[2].target = "transactions"
    /\ ~Ingested(trips[2].steps)
    /\ Len(cctx.actions_copy_) > 0
    /\ pstate = "halted"

(***************************************************************************)
(* C9: block_copy_to returns OK only if opening the stream, writing the    *)
(* data, closing the stream and the final result all succeeded; a failure  *)
(* of any one of them raises an execution error.                           *)
(***************************************************************************)
C9_AnyStepFailureRaises ==
    \A i \in 1..Len(trips) :
        trips[i].op = "COPY" =>
            (trips[i].raised <=> (\E k \in 1..Len(trips[i].steps) : ~trips[i].steps[k]))

(***************************************************************************)
(* C10: commit_trx_context on a non-empty log makes exactly one execution, *)
(* of the whole log in the order of its lines, and raises an execution     *)
(* error exactly when the status is not success.                           *)
(***************************************************************************)
C10_OneExecution ==
    (ret.op = "commit_trx_context" /\ Len(tctx) > 0) =>
        /\ Len(trips) = 1
        /\ trips[1].op = "EXEC"
        /\ trips[1].payload = tctx
        /\ (ret.result = ExecErr) <=> ~trips[1].steps[1]
        /\ ret.result \in {PG_OK, ExecErr}

C10_Witness ==
    /\ ret = Ret("commit_trx_context", ExecErr)
    /\ Len(tctx) = 2
    /\ tctx[1].plan # tctx[2].plan
    /\ Len(trips) = 1
    /\ trips[1].payload = tctx

(***************************************************************************)
(* C11: check_version raises a version error when no version stat is       *)
(* stored and when the stored string is lexicographically less than the    *)
(* running version; it returns OK when the stored string is equal or       *)
(* lexicographically greater; it never changes the stored version.         *)
(***************************************************************************)
StoredVersion(d) == IF "version" \in DOMAIN d.stats THEN <<d.stats["version"]>> ELSE <<>>

\* a precedes b in the lexicographic order of their chars
LexLess(a, b) ==
    \E k \in 1..Len(b) :
        /\ k <= Len(a) + 1
        /\ \A j \in 1..(k - 1) : a[j] = b[j]
        /\ (k = Len(a) + 1 \/ a[k] < b[k])

C11_Result ==
    ret.op = "check_version" =>
        LET v == StoredVersion(db)
        IN  /\ v = <<>> => ret.result = VersionErr
            /\ (v # <<>> /\ LexLess(Bytes(v[1]), Bytes(pg_version))) =>
                    ret.result = VersionErr
            /\ (v # <<>> /\ ~LexLess(Bytes(v[1]), Bytes(pg_version))) =>
                    ret.result = PG_OK

C11_VersionGate ==
    /\ []C11_Result
    /\ [][ret'.op = "check_version" => db' = db]_vars

C11_Witness ==
    /\ ret = Ret("check_version", VersionErr)
    /\ StoredVersion(db) = <<"1.0">>

(***************************************************************************)
(* C12: prepare_stats writes the version entry and the empty               *)
(* last_sync_block_id entry through one trx context committed once: in     *)
(* every reachable state the stats map holds both entries or neither, and  *)
(* after a successful prepare_stats it holds version = running version and *)
(* last_sync_block_id = empty.                                             *)
(***************************************************************************)
C12_StatsSeededAtomically ==
    /\ DOMAIN db.stats \in {{}, {"version", "last_sync_block_id"}}
    /\ ret.op = "prepare_stats" =>
          /\ Len(trips) = 1
          /\ trips[1].op = "EXEC"
          /\ Len(trips[1].payload) = 2
    /\ ret = Ret("prepare_stats", PG_OK) =>
          /\ db.stats["version"] = pg_version
          /\ db.stats["last_sync_block_id"] = ""

C12_Witness ==
    /\ ret = Ret("prepare_stats", PG_OK)
    /\ DOMAIN db.stats = {"version", "last_sync_block_id"}
    /\ db.stats["version"] = "1.0.0"
    /\ db.stats["last_sync_block_id"] = ""

(***************************************************************************)
(* C13 as claimed: stat writes are upserts.  After a flushed stat write    *)
(* for key k with value v, by add_stat or by upd_stat, the stats map holds *)
(* an entry for k with value v, whether or not one existed before.         *)
(***************************************************************************)
IsStatLine(line) == line.plan \in {"as_plan", "us_plan"}

StatKeyOf(line) == IF line.plan = "as_plan" THEN line.args[1] ELSE line.args[2]

StatValueOf(line) == IF line.plan = "as_plan" THEN line.args[2] ELSE line.args[1]

\* positions of the lines of buf that write the stat k
StatWrites(buf, k) == {i \in 1..Len(buf) : IsStatLine(buf[i]) /\ StatKeyOf(buf[i]) = k}

Last(S) == CHOOSE i \in S : \A j \in S : j <= i

C13_StatWritesAreUpserts ==
    ret = Ret("commit_trx_context", PG_OK) =>
        \A k \in StatKeys :
            StatWrites(tctx, k) # {} =>
                /\ k \in DOMAIN db.stats
                /\ db.stats[k] = StatValueOf(tctx[Last(StatWrites(tctx, k))])

(***************************************************************************)
(* C13 amended: add_stat is an insert and upd_stat an update.  add_stat    *)
(* appends an as_plan line and upd_stat a us_plan line for the key and the *)
(* value.  A successful flush leaves, for a key that had an entry, the     *)
(* value of the last update of the log (and the log has no insert for it); *)
(* for a key that had none, no entry unless the log inserts it once, and   *)
(* then the value of the insert or of the last update after it.  A failed  *)
(* flush changes nothing.                                                  *)
(***************************************************************************)
C13_Step ==
    /\ ret'.op = "add_stat" =>
          tctx' = Append(tctx, Line("as_plan", <<ret'.input[1], ret'.input[2]>>))
    /\ ret'.op = "upd_stat" =>
          /\ tctx' = Append(tctx, Line("us_plan", <<ret'.input[2], ret'.input[1]>>))
          /\ db' = db
    /\ ret' = Ret("commit_trx_context", ExecErr) => db' = db
    /\ ret' = Ret("commit_trx_context", PG_OK) =>
          \A k \in StatKeys :
              LET W == StatWrites(tctx, k)
                  A == {i \in W : tctx[i].plan = "as_plan"}
              IN  IF k \in DOMAIN db.stats
                  THEN /\ A = {}
                       /\ k \in DOMAIN db'.stats
                       /\ db'.stats[k] = IF W = {} THEN db.stats[k]
                                          ELSE StatValueOf(tctx[Last(W)])
                  ELSE /\ Cardinality(A) <= 1
                       /\ A = {} => k \notin DOMAIN db'.stats
                       /\ A # {} =>
                             /\ k \in DOMAIN db'.stats
                             /\ db'.stats[k] =
                                   StatValueOf(tctx[Last({i \in W : i >= Last(A)})])

C13_StatWritesInsertOrUpdate == [][C13_Step]_vars

C13_Witness ==
    /\ ret = Ret("commit_trx_context", PG_OK)
    /\ Len(tctx) = 2
    /\ tctx[1] = Line("us_plan", <<"1.0.1", "version">>)
    /\ tctx[2] = Line("as_plan", <<"last_sync_block_id", "">>)
    /\ DOMAIN db.stats = {"last_sync_block_id"}

(***************************************************************************)
(* C14: for an issue-token action carrying N token names, add_tokens       *)
(* appends exactly N insert lines, one per name in action order, each with *)
(* id domain:name and each carrying the owner list of the action, same     *)
(* owners in the same order; for N = 0 it appends nothing.                 *)
(***************************************************************************)
C14_Step ==
    ret'.op = "add_tokens" =>
        LET it == ret'.input
            n  == Len(it.names)
        IN  /\ Len(tctx') = Len(tctx) + n
            /\ SubSeq(tctx', 1, Len(tctx)) = tctx
            /\ \A i \in 1..n :
                  LET line == tctx'[Len(tctx) + i]
                  IN  /\ line.plan = "it_plan"
                      /\ Len(line.args) = 4
                      /\ line.args[1] = it.domain \o ":" \o it.names[i]
                      /\ line.args[2] = it.domain
                      /\ line.args[3] = it.names[i]
                      /\ ParseArray(line.args[4]).ok
                      /\ ParseArray(line.args[4]).elems = it.owner

C14_OneLinePerTokenName == [][C14_Step]_vars

C14_Witness ==
    /\ ret.op = "add_tokens"
    /\ ret.input.names = <<"t2", "t1">>
    /\ ret.input.owner = <<"EVT2", "EVT1">>
    /\ Len(tctx) = 2
    /\ tctx[1].args[1] = "dom1:t2"
    /\ tctx[2].args[1] = "dom1:t1"

(***************************************************************************)
(* C15: for every add-meta action, add_meta appends exactly one            *)
(* owner-update line, to exactly one owner table: fungibles when the       *)
(* action's domain is the fungible marker; otherwise groups when the       *)
(* domain is the group marker; otherwise domains when the key is the meta  *)
(* marker; otherwise tokens with id domain:key.  A flush of the lines of   *)
(* one add-meta action leaves the other three owner tables untouched.      *)
(***************************************************************************)
OwnerTables == {"domains", "tokens", "groups", "fungibles"}

\* the table an owner-update statement updates
OwnerTable(plan) ==
    CASE plan = "amd_plan" -> "domains"
      [] plan = "amt_plan" -> "tokens"
      [] plan = "amg_plan" -> "groups"
      [] plan = "amf_plan" -> "fungibles"
      [] OTHER -> "none"

OwnerLines(buf) == {i \in 1..Len(buf) : OwnerTable(buf[i].plan) \in OwnerTables}

C15_Step ==
    /\ ret'.op = "add_meta" =>
          LET act   == ret'.input
              added == SubSeq(tctx', Len(tctx) + 1, Len(tctx'))
          IN  /\ SubSeq(tctx', 1, Len(tctx)) = tctx
              /\ Cardinality(OwnerLines(added)) = 1
              /\ \A i \in OwnerLines(added) :
                    /\ act.domain = ".fungible" =>
                          /\ OwnerTable(added[i].plan) = "fungibles"
                          /\ added[i].args[2] = act.key
                    /\ (act.domain # ".fungible" /\ act.domain = ".group") =>
                          /\ OwnerTable(added[i].plan) = "groups"
                          /\ added[i].args[2] = act.key
                    /\ (act.domain \notin {".fungible", ".group"} /\ act.key = ".meta") =>
                          /\ OwnerTable(added[i].plan) = "domains"
                          /\ added[i].args[2] = act.domain
                    /\ (act.domain \notin {".fungible", ".group"} /\ act.key # ".meta") =>
                          /\ OwnerTable(added[i].plan) = "tokens"
                          /\ added[i].args[2] = act.domain \o ":" \o act.key
    /\ (ret' = Ret("commit_trx_context", PG_OK) /\ Len(tctx) = 2 /\ OwnerLines(tctx) = {2}) =>
          \A t \in OwnerTables \ {OwnerTable(tctx[2].plan)} : db'[t] = db[t]

Attachments(d, id) ==
    UNION {UNION {{<<t, k, i>> : i \in {j \in 1..Len(d[t][k].metas) : d[t][k].metas[j] = id}} :
                    k \in DOMAIN d[t]} : t \in OwnerTables}

C16_MetaAttachedExactlyOnce ==
    \A i \in 1..Len(db.metas) : Cardinality(Attachments(db, db.metas[i].id)) = 1

(***************************************************************************)
(* C17: every block row is inserted with pending = true, becomes           *)
(* pending = false only through a flushed set_block_irreversible for that  *)
(* block's id, never returns to true, and is never deleted.                *)
(***************************************************************************)
\* the log buf has a set_block_irreversible line for block_id
MarksIrreversible(buf, block_id) ==
    \E i \in 1..Len(buf) : buf[i].plan = "sbi_plan" /\ buf[i].args[1] = block_id

C17_Step ==
    /\ Len(db'.blocks) >= Len(db.blocks)
    /\ \A i \in 1..Len(db.blocks) :
          /\ db'.blocks[i].block_id = db.blocks[i].block_id
          /\ ~db.blocks[i].pending => ~db'.blocks[i].pending
          /\ (db.blocks[i].pending /\ ~db'.blocks[i].pending) =>
                /\ ret' = Ret("commit_trx_context", PG_OK)
                /\ MarksIrreversible(tctx, db.blocks[i].block_id)
    /\ \A i \in (Len(db.blocks) + 1)..Len(db'.blocks) : db'.blocks[i].pending

C17_BlockPendingLifecycle == [][C17_Step]_vars

(***************************************************************************)
(* C18: the pending flag of every transaction row equals the pending flag  *)
(* of its owning block row after every flush: a transaction is inserted    *)
(* pending together with its block, and a flushed set_block_irreversible   *)
(* for a block also makes every transaction of that block non-pending.     *)
(***************************************************************************)
C18_FlagsAgree ==
    ret.op \in {"commit_copy_context", "commit_trx_context"} =>
        \A i \in 1..Len(db.transactions) : \A j \in 1..Len(db.blocks) :
            db.transactions[i].block_id = db.blocks[j].block_id =>
                db.transactions[i].pending = db.blocks[j].pending

C18_Step ==
    /\ \A i \in (Len(db.transactions) + 1)..Len(db'.transactions) :
          db'.transactions[i].pending
    /\ ret' = Ret("commit_trx_context", PG_OK) =>
          \A i \in 1..Len(db'.transactions) :
              MarksIrreversible(tctx, db'.transactions[i].block_id) =>
                  ~db'.transactions[i].pending

C18_TrxPendingFollowsBlock == []C18_FlagsAgree /\ [][C18_Step]_vars

(***************************************************************************)
(* C19: no write operation changes or removes an existing actions row, and *)
(* none changes a column other than pending of an existing blocks or       *)
(* transactions row; these tables are otherwise only added to.             *)
(***************************************************************************)
\* the rows of before are the first rows of after, up to their pending flag
KeptButPending(before, after) ==
    /\ Len(after) >= Len(before)
    /\ \A i \in 1..Len(before) :
          [after[i] EXCEPT !.pending = before[i].pending] = before[i]

C19_Step ==
    /\ Len(db'.actions) >= Len(db.actions)
    /\ SubSeq(db'.actions, 1, Len(db.actions)) = db.actions
    /\ KeptButPending(db.blocks, db'.blocks)
    /\ KeptButPending(db.transactions, db'.transactions)

C20_EscapingRoundTrips ==
    /\ (ret.op = "commit_trx_context" /\ tctx[1] = "EXECUTE as_plan(") =>
          /\ ret.result = PG_OK
          /\ trips[1].payload = <<Line("as_plan", ret.input)>>
    /\ (ret.op = "commit_trx_context" /\ tctx[1] = "EXECUTE am_plan(") =>
          /\ ret.result = PG_OK
          /\ Len(trips[1].payload) = 2
          /\ trips[1].payload[1] =
                Line("am_plan", <<ret.input.data.key, ret.input.data.value,
                                  ret.input.data.creator>>)
          /\ trips[1].payload[2] = Line("amd_plan", <<<<"lastval()">>, ret.input.domain>>)


(***************************************************************************)
(* C21: for every transaction, add_trx renders the signatures column and   *)
(* the keys column as brace-enclosed, comma-separated, double-quoted lists *)
(* that hold each signature, respectively each recovered signer key,       *)
(* exactly once and in order, with no trailing comma, an empty list being  *)
(* {}; the keys list has as many elements as there are recovered keys.     *)
(***************************************************************************)
C21_ArrayColumnsHoldEachElementOnce ==
    ret.op = "add_trx" =>
        LET row  == cctx.trxs_copy_[Len(cctx.trxs_copy_)]
            keys == get_signature_keys(ret.input)
        IN  /\ ParseArray(row.signatures) = [ok |-> TRUE, elems |-> ret.input.signatures]
            /\ ParseArray(row.keys) = [ok |-> TRUE, elems |-> keys]
            /\ Len(ParseArray(row.keys).elems) = Len(keys)


(***************************************************************************)
(* C27: check_last_sync_block raises a sync error whenever the blocks      *)
(* table has no row, whatever the stored last_sync_block_id is (absent,    *)
(* empty, or a block id); a store on which only prepare_tables and         *)
(* prepare_stats ran does not pass the check.  The check reads the stats   *)
(* entry and then asks for the latest block, and changes nothing.          *)
(***************************************************************************)
C27_Step ==
    (ret'.op = "check_last_sync_block" /\ Len(db.blocks) = 0) =>
        /\ ret'.result = SyncErr
        /\ db' = db
        /\ last_sync_block_id_' = last_sync_block_id_
        /\ Checkpoint(db) # <<>> => trips' = <<RsTrip, GlbTrip>>

C27_NoBlockRowIsSyncError == [][C27_Step]_vars

\* the check raised on the store prepare_stats leaves
C27_Witness ==
    /\ ret = Ret("check_last_sync_block", SyncErr)
    /\ db = prepare_stats(EmptyDb, 0).db
    /\ Checkpoint(db) = <<"">>
    /\ trips = <<RsTrip, GlbTrip>>


(***************************************************************************)
(* C24: in every statement log each owner-update line of add_meta comes    *)
(* right after the metas insert line of the same action, so after the      *)
(* flush the id appended to the owner's metadata-id list is the id the     *)
(* store gave that action's metas row, it is appended as the last element, *)
(* and exactly one id is appended per add-meta action, whatever other      *)
(* actions are buffered with it.                                           *)
(***************************************************************************)
\* the ids the flush of buf appends to the list of row key of table, in order:
\* the n-th am_plan line of buf gets the n-th id after the sequence's value seq
AppendedIds(buf, seq, table, key) ==
    LET ams    == {i \in 1..Len(buf) : buf[i].plan = "am_plan"}
        IdOf(i) == seq + Cardinality({j \in ams : j <= i})
        mine   == SelectSeq([i \in 1..Len(buf) |-> i],
                            LAMBDA i : /\ OwnerTable(buf[i].plan) = table
                                       /\ buf[i].args[2] = key)
    IN  [n \in 1..Len(mine) |-> IdOf(mine[n] - 1)]

C24_Step ==
    (ret' = Ret("commit_trx_context", PG_OK) /\ AmLines(tctx) > 0) =>
        LET ams == {i \in 1..Len(tctx) : tctx[i].plan = "am_plan"}
        IN  /\ \A i \in OwnerLines(tctx) : i - 1 \in ams
            /\ \A i \in ams : i + 1 \in OwnerLines(tctx)
            /\ \A i \in ams :
                  \E r \in 1..Len(db'.metas) :
                      db'.metas[r].id = db.metas_id_seq + Cardinality({j \in ams : j <= i})
            /\ \A i \in OwnerLines(tctx) :
                  LET table == OwnerTable(tctx[i].plan)
                      key   == tctx[i].args[2]
                  IN  /\ key \in DOMAIN db'[table]
                      /\ db'[table][key].metas =
                            (IF key \in DOMAIN db[table] THEN db[table][key].metas ELSE <<>>)
                            \o AppendedIds(tctx, db.metas_id_seq, table, key)

C24_OwnerGetsTheIdOfItsMetaRow == [][C24_Step]_vars


(***************************************************************************)
(* C25: a flushed update-group action replaces the def of exactly the      *)
(* groups row whose name is the action's group name with the action's new  *)
(* definition and leaves every other row unchanged: upd_group binds the    *)
(* new definition to the value parameter of the statement and the group    *)
(* name to its key parameter.                                              *)
(***************************************************************************)
\* the store as the lines of buf before its last line leave it
BeforeLast(d, buf) == PQexec(d, SubSeq(buf, 1, Len(buf) - 1), 0)

C25_Step ==
    (ret.op = "upd_group" /\ ret'.op = "commit_trx_context") =>
        LET ug     == ret.input
            before == BeforeLast(db, tctx)
        IN  (before.ok /\ ug.name \in DOMAIN before.db.groups) =>
                db' = [before.db EXCEPT !.groups[ug.name].def = ug.def]

C25_UpdateGroupReplacesDef == [][C25_Step]_vars


(***************************************************************************)
(* C26: when an update-domain or update-fungible action omits an optional  *)
(* policy (issue, transfer or manage), the stored value of that policy on  *)
(* the target row is the same after the flush as before it; only the       *)
(* policies the action carries are replaced, each by the value carried,    *)
(* and the metadata-id list of the row is not changed.                     *)
(***************************************************************************)
\* the policy after the update: the one carried, or else the one stored
Carried(opt, stored) == IF opt # <<>> THEN opt[1] ELSE stored

C26_Step ==
    /\ (ret.op = "upd_domain" /\ ret'.op = "commit_trx_context") =>
          LET ud     == ret.input
              before == BeforeLast(db, tctx)
          IN  (before.ok /\ ud.name \in DOMAIN before.db.domains) =>
                  LET row == before.db.domains[ud.name]
                  IN  db' = [before.db EXCEPT !.domains[ud.name] =
                                [row EXCEPT !.issue    = Carried(ud.issue, row.issue),
                                            !.transfer = Carried(ud.transfer, row.transfer),
                                            !.manage   = Carried(ud.manage, row.manage)]]
    /\ (ret.op = "upd_fungible" /\ ret'.op = "commit_trx_context") =>
          LET uf     == ret.input
              before == BeforeLast(db, tctx)
          IN  (before.ok /\ uf.sym_id \in DOMAIN before.db.fungibles) =>
                  LET row == before.db.fungibles[uf.sym_id]
                  IN  db' = [before.db EXCEPT !.fungibles[uf.sym_id] =
                                [row EXCEPT !.issue  = Carried(uf.issue, row.issue),
                                            !.manage = Carried(uf.manage, row.manage)]]

C26_OmittedPoliciesKeepTheirValue == [][C26_Step]_vars


(***************************************************************************)
(* C22: over any sequence of operations in one process, a named statement  *)
(* that was prepared successfully is not sent to the store for preparation *)
(* again: every later call of the operation that uses it skips the prepare *)
(* and makes no prepare round trip.                                        *)
(***************************************************************************)
\* the names of the PREPARE round trips among ts
PrepareTrips(ts) == {ts[i].target : i \in {j \in 1..Len(ts) : ts[j].op = "PREPARE"}}

\* the names an operation registers
RegisteredNames(op) == {Registered(op)[i] : i \in 1..Len(Registered(op))}

C22_Step ==
    /\ PrepareTrips(trips') \cap conn_.prepared = {}
    /\ \A op \in once : PrepareTrips(trips') \cap RegisteredNames(op) = {}
    /\ ret'.op \in once => PrepareTrips(trips') = {}

C22_PreparedAtMostOnce == [][C22_Step]_vars


(***************************************************************************)
(* C23: every line that add_stat, upd_stat, set_block_irreversible,        *)
(* add_domain, upd_domain, add_tokens, upd_token, del_token, add_group,    *)
(* upd_group, add_fungible, upd_fungible or add_meta appends to the        *)
(* statement log invokes a statement name that the same operation          *)
(* registered through its prepare-once before appending, with as many      *)
(* arguments as the registered statement has parameters.                   *)
(***************************************************************************)
C23_Step ==
    \A op \in Translators :
        (ret' = Ret(op, PG_OK)) =>
            /\ op \in once'
            /\ Len(tctx') > Len(tctx)
            /\ \A i \in (Len(tctx) + 1)..Len(tctx') :
                  /\ tctx'[i].plan \in RegisteredNames(op)
                  /\ Len(tctx'[i].args) = Params(tctx'[i].plan)

C23_LinesInvokeRegisteredNames == [][C23_Step]_vars


(***************************************************************************)
(* C28: the prepare-once guard belongs to the process, not to the          *)
(* connection.  close() and connect() leave every flag as it is and the    *)
(* new session has no prepared statement; so an operation whose statement  *)
(* was prepared on an earlier session makes no prepare round trip on the   *)
(* current one, and the names it invokes are not statements of the current *)
(* session: read_stat fails, and the lines a translator appends invoke     *)
(* names the session does not have.                                        *)
(***************************************************************************)
C28_Step ==
    /\ ret'.op \in {"close", "connect"} => (once' = once /\ conn_'.prepared = {})
    /\ \A op \in Translators \cup {"read_stat"} :
          (ret'.op = op /\ op \in once /\ RegisteredNames(op) \cap conn_.prepared = {}) =>
              /\ PrepareTrips(trips') = {}
              /\ once' = once
              /\ conn_' = conn_
              /\ ret'.result = IF op = "read_stat" THEN ExecErr ELSE PG_OK
              /\ op # "read_stat" =>
                    /\ Len(tctx') > Len(tctx)
                    /\ \A i \in (Len(tctx) + 1)..Len(tctx') :
                          tctx'[i].plan \notin conn_'.prepared

C28_OnceGuardOutlivesTheSession == [][C28_Step]_vars

\* read_stat failed on a session opened after the one rs_plan was prepared on
C28_Witness ==
    /\ ret.op = "read_stat"
    /\ ret.result = ExecErr
    /\ "read_stat" \in once
    /\ conn_ = connect
    /\ trips = <<Trip("QUERY", "rs_plan", <<"version">>, <<FALSE>>, TRUE)>>

====
